---- MODULE Spec2Model ----
(***************************************************************************)
(* Dataset manager (internal/dataset/manager.go) and the query engine's    *)
(* retry wrapper (package query), modelled as a state machine over a small *)
(* file system: the snapshot path, the temp path, the metadata file and    *)
(* the refresh lock file.  io.Copy is one step per chunk.  Consecutive     *)
(* calls of one invocation are joined into one step where all but one of   *)
(* them touch only what the lock holder owns (its temp file, its locals)   *)
(* or only read: probe after load, stat after sha, remove after stat.      *)
(* The HTTP front (package mcpgo: the health cache, the /mcp handler) and  *)
(* the shutdown of the serving process have their own specifications.     *)
(***************************************************************************)
EXTENDS Integers, Sequences, FiniteSets, TLC

\* ------------------------------------------------------------------ bounds
NumProcs == 2        \* concurrent EnsureDataset invocations
MaxVersion == 2      \* versions the remote publishes
ChunkCount == 2      \* chunks of the largest download body
WaitTicks == 2       \* ticker periods in waitForDownload's timeout (10 min / 2 s)
MaxRefreshes == 2    \* refreshes the background loop invokes
NumCallers == 2      \* concurrent /health requests
MaxTime == 12        \* seconds the clock of the health cache runs
MaxProbes == 2       \* engine probes after which no new /health call arrives
MaxTokenLen == 2     \* characters of a bearer token
MaxRequests == 2     \* /mcp requests the server answers
MaxInflight == 2     \* handlers running at once
IntBits == 8          \* width of Go's int (64 in the build), scaled down
MaxLimitTenths == 1400  \* largest requested limit, in tenths
MaxRows == 2          \* rows of the dataset; largest limit of an engine search
KjValues == {0, 564, 2255}  \* numbers found in an energy entry, in kJ
MaxEnvLines == 2      \* lines of .env

Procs == 1..NumProcs
Versions == 1..MaxVersion
Inodes == 1..(2 * NumProcs + 2)
Paths == {"snapshot", "tmp"}

\* lockOwner: 0 = no lock file; p = created by invocation p; Stale = a lock
\* file left behind by a process that is gone.
NoLock == 0
Stale == NumProcs + 1

\* ------------------------------------------------------------ the remote
\* Body of version v as served by GET: SizeOf(v) chunks, each tagged v.
SizeOf(v) == IF v % 2 = 1 THEN ChunkCount ELSE ChunkCount - 1
Body(v) == [i \in 1..SizeOf(v) |-> v]
\* A complete file is the whole body of one version.
Complete(c) == \E v \in Versions : c = Body(v)

\* computeSHA256: the digest is modelled as an injective tag of the content.
computeSHA256(c) == <<"sha256", c>>

NoMeta == [present |-> FALSE, sha |-> computeSHA256(<<>>), etag |-> 0, size |-> 0]
MetaOf(v) == [present |-> TRUE, sha |-> computeSHA256(Body(v)), etag |-> v, size |-> SizeOf(v)]

VARIABLES
  path,        \* path name -> inode linked there (0 = no file)
  ino,         \* inode -> content (sequence of chunks; 0 is a hole)
  metadata,    \* the metadata file (NoMeta = absent)
  lockOwner,   \* who created the lock file now at lockPath
  remote,      \* version the remote serves now
  ignoreLock,          \* config.IgnoreLock
  disableRemoteCheck,  \* config.DisableRemoteCheck
  pc,          \* position of each invocation
  lockFile,    \* invocation holds a non-nil *os.File from acquireLock
  fd,          \* open files of each invocation: inode per role (0 = closed)
  off,         \* io.Copy offset (chunks) of each invocation
  loc,         \* locals: version of the response body being downloaded
  ret,         \* what EnsureDataset returned, and what was on disk then
  promoted,    \* versions whose whole body has been at the snapshot path
  qpc, attempt, qret, rdSeen, qInWindow,  \* the query (reader)
  qwaits,      \* delays (ms) the query has slept between its executions
  qkind,       \* wrapper the query runs through: "query", "row" or "none"
  qctx,        \* the query's context: "none" (live) or where it was cancelled
  qexecs,      \* times the engine has run the query for this call
  waited,      \* polls of waitForDownload that found no snapshot, per invocation
  entry,       \* how the serving process was started ("none" = not started)
  interval,    \* config.RefreshIntervalSeconds
  srv,         \* the serving process: off, starting, serving, failed
  loop,        \* the refresh goroutine: none, select, refresh, stopped
  tickReady,   \* a tick is waiting in ticker.C (a channel of capacity 1)
  ctxDone,     \* the context handed to the refresh loop is cancelled
  refreshes,   \* refreshes the loop has invoked
  failures,    \* refreshes of the loop that returned an error
  late,        \* a refresh was invoked after the context was cancelled
  hnow,        \* the monotonic clock, in seconds
  lastHealthCheck,  \* Server.lastHealthCheck
  lastHealthError,  \* Server.lastHealthError, with the probe it came from
  healthMu,    \* Server.healthMu: the caller holding the write lock (0 = free)
  hpc,         \* position of each /health caller in checkHealthWithCache
  hcall,       \* what each caller found when its call arrived
  hres,        \* what checkHealthWithCache returned to each caller
  probes,      \* engine probes completed
  authToken,   \* BearerTokenAuth.token (a string: a sequence of characters)
  environment, \* config.Environment
  impl,        \* which /mcp handler the process serves ("none" before set-up)
  hst,         \* position of the /mcp handler
  hreq,        \* the /mcp request being handled
  resp,        \* the response written to it
  invoked,     \* components run for it: dispatcher, tool, engine
  served,      \* /mcp requests answered
  panics,      \* of those, requests whose handling panicked
  sig,         \* SIGINT or SIGTERM has been delivered
  listening,   \* the HTTP listener accepts connections
  inflight,    \* handlers running
  engine,      \* the query engine: none, open, closed
  swait,       \* seconds server.Shutdown has waited
  cut,         \* handlers still running when the wait ended or the process died
  tpc,         \* position of a search tool handler
  tcall,       \* the tool call's arguments
  tlimit,      \* the limit the handler passes to the engine (0: none yet)
  tres,        \* what the handler returns
  tqueries,    \* engine queries made for the call
  dataset,     \* the rows of the parquet snapshot the engine reads
  epc,         \* position of an engine search
  ecall,       \* the search's arguments
  erows,       \* the rows the query returned
  results,     \* the products the search returns
  npc,         \* position of a simplified projection
  nutriments,  \* Product.Nutriments of the product projected
  processed,   \* the projection's nutriments
  envpc,       \* position of the .env loader
  environ,     \* the process environment
  envFile,     \* the lines of .env
  scanned      \* lines of .env read so far

fsVars == <<path, ino, metadata, lockOwner, promoted>>
cfgVars == <<ignoreLock, disableRemoteCheck>>
procVars == <<pc, lockFile, fd, off, loc, ret, waited>>
rdVars == <<qpc, attempt, qret, rdSeen, qInWindow, qwaits, qkind, qctx, qexecs>>
srvVars == <<entry, interval, srv, loop, tickReady, ctxDone, refreshes, failures, late>>
healthVars == <<hnow, lastHealthCheck, lastHealthError, healthMu, hpc, hcall, hres, probes>>
httpVars == <<authToken, environment, impl, hst, hreq, resp, invoked, served, panics>>
stopVars == <<sig, listening, inflight, engine, swait, cut>>
toolVars == <<tpc, tcall, tlimit, tres, tqueries>>
engVars == <<dataset, epc, ecall, erows, results>>
nutVars == <<npc, nutriments, processed>>
envVars == <<envpc, environ, envFile, scanned>>
libVars == <<toolVars, engVars, nutVars, envVars>>
webVars == <<healthVars, httpVars, stopVars, libVars>>
vars == <<path, ino, metadata, lockOwner, promoted, remote, ignoreLock, disableRemoteCheck,
          pc, lockFile, fd, off, loc, ret, qpc, attempt, qret, rdSeen, qInWindow, qkind, qctx, qexecs,
          qwaits, waited, entry, interval, srv, loop, tickReady, ctxDone, refreshes,
          failures, late, hnow, lastHealthCheck, lastHealthError, healthMu, hpc, hcall,
          hres, probes, authToken, environment, impl, hst, hreq, resp, invoked, served,
          panics, sig, listening, inflight, engine, swait, cut,
          tpc, tcall, tlimit, tres, tqueries, dataset, epc, ecall, erows,
          results, npc, nutriments, processed, envpc, environ, envFile,
          scanned>>

\* ------------------------------------------------------- file system
NoFds == [tmp |-> 0, src |-> 0, dst |-> 0]
Refs(pth, f) ==
  ({pth[n] : n \in Paths} \cup {f[p].tmp : p \in Procs}
     \cup {f[p].src : p \in Procs} \cup {f[p].dst : p \in Procs}) \ {0}
\* An inode nobody links or holds open is freed (content dropped).
Gc(inoN, pthN, fN) ==
  [i \in Inodes |-> IF i \in Refs(pthN, fN) THEN inoN[i] ELSE <<>>]
FreeIno ==
  CHOOSE i \in Inodes : /\ i \notin Refs(path, fd)
                        /\ \A j \in Inodes : j \notin Refs(path, fd) => i <= j
\* write(2) of one chunk at chunk offset o (a gap before o reads as holes).
WriteAt(c, o, x) ==
  IF o < Len(c) THEN [c EXCEPT ![o + 1] = x]
  ELSE c \o [i \in 1..(o - Len(c)) |-> 0] \o <<x>>
Exists(n) == path[n] # 0
Content(n) == ino[path[n]]
\* os.Create(name): O_CREATE|O_TRUNC - the inode already linked there is
\* truncated and reused, otherwise a fresh one is linked.
CreateIno(n) == IF Exists(n) THEN path[n] ELSE FreeIno

SnapshotUsable == Exists("snapshot") /\ Complete(Content("snapshot"))

VersionOf(c) == CHOOSE v \in Versions : c = Body(v)
NotReturned ==
  [status |-> "none", via |-> "none", exists |-> FALSE, complete |-> FALSE,
   shaOk |-> FALSE, held |-> FALSE, keptOld |-> TRUE, tmpGone |-> TRUE,
   created |-> FALSE, err |-> "none"]
\* body: version of the GET response being streamed (0 = none);
\* old: version of the complete snapshot that was at the snapshot path when
\* this invocation's download started (0 = none).
\* localMeta, remoteMeta: isUpToDate's two locals, held until EnsureDataset
\* has acted on isUpToDate's result.
NoProbe == [state |-> "none", etag |-> 0, size |-> 0]

\* checkHealthWithCache: const cacheDuration = 10 * time.Second, in seconds.
cacheDuration == 10
\* The zero time.Time of a new Server: further back than any cacheDuration.
ZeroTime == 0 - cacheDuration
\* Concurrent /health requests.
Callers == 1..NumCallers
\* What the engine's HealthCheck returns, labelled with the probe (0: the
\* nil error of a new Server).
NoProbeYet == [err |-> "nil", probe |-> 0]
NoCall == [at |-> 0, fresh |-> FALSE, cached |-> NoProbeYet, seen |-> 0,
           round |-> 0, expired |-> FALSE]
NoHealth == [val |-> NoProbeYet, probed |-> FALSE]
\* No request in the handler; nothing written to the ResponseWriter.
NoReq == [method |-> "none", header |-> <<>>, rpc |-> "none", panicAt |-> "none",
          auth |-> "unchecked", engineErr |-> "none"]
NoResp == [status |-> 0, wwwAuth |-> "", text |-> <<>>]

\* No tool call in the handler; nothing returned by it.
NoToolCall == [name |-> "missing", brand |-> "missing", limit |-> [set |-> FALSE, v |-> 0]]
NoToolResult == [isError |-> FALSE, rpcError |-> FALSE, text |-> <<>>]

\* No search in the engine.
NoSearch == [kind |-> "none", name |-> "", brand |-> "", barcode |-> "", limit |-> 0]
\* A JSON value of a nutrient object: absent, a number (in hundredths) or
\* something that is not a number.
Absent == [kind |-> "absent", centi |-> 0]
\* No such key in a nutriments map.
NoEntry == [present |-> FALSE, f100g |-> Absent, serving |-> Absent,
            value |-> Absent, name |-> "", unit |-> ""]
NutKeys == {"energy", "energy-kcal", "fat"}
\* A nil nutriments map.
NoNutriments == [nil |-> TRUE, entries |-> [k \in NutKeys |-> NoEntry]]
\* The variables the configuration reads; none of them set.
EnvKeys == {"ENV", "PORT"}
NoEnviron == [k \in EnvKeys |-> [set |-> FALSE, value |-> <<>>]]

NoLoc == [body |-> 0, old |-> 0, localMeta |-> NoMeta, remoteMeta |-> NoProbe]

Init ==
  /\ \E have \in BOOLEAN :
       /\ path = [n \in Paths |-> IF n = "snapshot" /\ have THEN 1 ELSE 0]
       /\ ino = [i \in Inodes |-> IF i = 1 /\ have THEN Body(1) ELSE <<>>]
       /\ metadata = IF have THEN MetaOf(1) ELSE NoMeta
       /\ promoted = IF have THEN {1} ELSE {}
  /\ lockOwner \in {NoLock, Stale}
  /\ remote = 1
  /\ ignoreLock \in BOOLEAN
  /\ disableRemoteCheck \in BOOLEAN
  /\ pc = [p \in Procs |-> "idle"]
  /\ lockFile = [p \in Procs |-> FALSE]
  /\ fd = [p \in Procs |-> NoFds]
  /\ off = [p \in Procs |-> 0]
  /\ loc = [p \in Procs |-> NoLoc]
  /\ ret = [p \in Procs |-> NotReturned]
  /\ qpc = "idle" /\ attempt = 0 /\ qret = "none" /\ rdSeen = "none"
  /\ qInWindow = TRUE
  /\ qwaits = <<>>
  /\ qkind = "none" /\ qctx = "none" /\ qexecs = 0
  /\ waited = [p \in Procs |-> 0]
  /\ entry = "none" /\ interval = 0 /\ srv = "off" /\ loop = "none"
  /\ tickReady = FALSE /\ ctxDone = FALSE
  /\ refreshes = 0 /\ failures = 0 /\ late = FALSE
  /\ hnow = 0 /\ lastHealthCheck = ZeroTime /\ lastHealthError = NoProbeYet
  /\ healthMu = 0 /\ probes = 0
  /\ hpc = [c \in Callers |-> "idle"]
  /\ hcall = [c \in Callers |-> NoCall]
  /\ hres = [c \in Callers |-> NoHealth]
  /\ authToken = <<>> /\ environment = "production" /\ impl = "none"
  /\ hst = "boot" /\ hreq = NoReq /\ resp = NoResp /\ invoked = {} /\ served = 0
  /\ panics = 0
  /\ sig = FALSE /\ listening = FALSE /\ inflight = 0 /\ engine = "none"
  /\ swait = 0 /\ cut = 0
  /\ tpc = "idle" /\ tcall = NoToolCall /\ tlimit = 0 /\ tres = NoToolResult
  /\ tqueries = 0
  /\ dataset = <<>> /\ epc = "idle" /\ ecall = NoSearch /\ erows = <<>>
  /\ results = <<>>
  /\ npc = "idle" /\ nutriments = NoNutriments /\ processed = NoNutriments
  /\ envpc = "idle" /\ environ = NoEnviron /\ envFile = <<>> /\ scanned = 0

\* The remote publishes a new version.
RemotePublish ==
  /\ remote < MaxVersion
  /\ remote' = remote + 1
  /\ UNCHANGED <<fsVars, cfgVars, procVars, rdVars, srvVars, webVars, waited>>



\* ------------------------------------------------------- helpers
Goto(p, l) == pc' = [pc EXCEPT ![p] = l]

\* What EnsureDataset returns (status; via: the path it returned on) and
\* what is on disk at that moment.  No returning step changes the snapshot
\* path or the metadata file.
Returned(p, s, via, tmpAfter) ==
  [status |-> s,
   via |-> via,
   exists |-> Exists("snapshot"),
   complete |-> SnapshotUsable,
   shaOk |-> /\ Exists("snapshot")
             /\ metadata.present
             /\ computeSHA256(Content("snapshot")) = metadata.sha,
   held |-> lockFile[p],
   keptOld |-> \/ loc[p].old = 0
               \/ /\ Exists("snapshot")
                  /\ Content("snapshot") = Body(loc[p].old),
   tmpGone |-> tmpAfter = 0,
   created |-> promoted # {},
   err |-> IF s = "ok" THEN "nil" ELSE "failed"]
Return(p, s, via) ==
  /\ pc' = [pc EXCEPT ![p] = "done"]
  /\ ret' = [ret EXCEPT ![p] = Returned(p, s, via, 0)]

\* downloadWithLock's first statement depends on config.IgnoreLock.
downloadWithLock == IF ignoreLock THEN "forceUnlock" ELSE "acquireLock"

\* (variant: sizes are compared whatever the ETags are)
isUpToDateBySize(localMeta, remoteMeta) == remoteMeta.size = localMeta.size
\* isUpToDate's comparison of local and remote metadata.
isUpToDate(localMeta, remoteMeta) ==
  IF remoteMeta.etag # 0 /\ localMeta.etag # 0
    THEN remoteMeta.etag = localMeta.etag
    ELSE remoteMeta.size = localMeta.size

\* getRemoteMetadata: what a successful HEAD may answer (the ETag header
\* may be missing: 0 is the empty string).
getRemoteMetadata ==
  {[etag |-> e, size |-> SizeOf(remote)] : e \in {0, remote}}
\* The HEAD request failed (network error or a status other than 200).
ProbeFailed == [state |-> "failed", etag |-> 0, size |-> 0]
ProbeOk(rm) == [state |-> "ok", etag |-> rm.etag, size |-> rm.size]

\* (variant: the create is not exclusive)
OpenNotExcl(owner) == TRUE
\* acquireLock's OpenFile(O_CREATE|O_EXCL): succeeds iff nothing is at lockPath.
OpenExcl(owner) == owner = NoLock

\* (variant: a failed acquireLock always leads to the wait loop)
OnLockErrorWait == "wait"
\* (variant: the download goes on without a lock whatever the config says)
OnLockErrorProceed == "downloadFile"
\* downloadWithLock when acquireLock returned an error: with IgnoreLock the
\* download goes on without a lock, otherwise the invocation waits.
OnLockError == IF ignoreLock THEN "downloadFile" ELSE "wait"

\* (variant: the handle is closed but the file is not removed)
releaseLockKeepsFile(owner) == owner
\* releaseLock: f.Close(); os.Remove(lockPath) - whatever file is there.
releaseLock(owner) == NoLock

\* ------------------------------------------------------- EnsureDataset
\* (variant: the configuration is not consulted)
SkipRemoteCheckNever == FALSE
\* EnsureDataset's test of config.DisableRemoteCheck.
SkipRemoteCheck == disableRemoteCheck

\* EnsureDataset entry: os.Stat(parquetPath), then the DisableRemoteCheck
\* test; "local" is the return before isUpToDate, the first function that
\* sends a request, is called.
EnsureDataset(p) ==
  /\ pc[p] = "idle"
  /\ IF Exists("snapshot")
       THEN IF SkipRemoteCheck
              THEN Return(p, "ok", "local")
              ELSE Goto(p, "isUpToDate") /\ UNCHANGED ret
       ELSE Goto(p, downloadWithLock) /\ UNCHANGED ret
  /\ UNCHANGED <<fsVars, remote, cfgVars, lockFile, fd, off, loc, rdVars, srvVars, webVars, waited>>

\* isUpToDate up to its comparison: loadMetadata (absent or unparsable =>
\* false, nil: on to the download) and the HEAD probe, which fails or answers.
IsUpToDate(p) ==
  /\ pc[p] = "isUpToDate"
  /\ \/ /\ ~metadata.present
        /\ Goto(p, downloadWithLock) /\ UNCHANGED loc
     \/ /\ metadata.present
        /\ loc' = [loc EXCEPT ![p].localMeta = metadata, ![p].remoteMeta = ProbeFailed]
        /\ Goto(p, "upToDate")
     \/ /\ metadata.present
        /\ \E rm \in getRemoteMetadata :
             loc' = [loc EXCEPT ![p].localMeta = metadata, ![p].remoteMeta = ProbeOk(rm)]
        /\ Goto(p, "upToDate")
  /\ UNCHANGED <<fsVars, remote, cfgVars, lockFile, fd, off, ret, rdVars, srvVars, webVars, waited>>

\* isUpToDate returns (false, err) when the probe fails; EnsureDataset logs a
\* warning and uses the false.
OnProbeError == FALSE

\* What an invocation keeps once isUpToDate has answered false: the local
\* metadata of the snapshot it found not up to date.
JudgedStale(localMeta) == [NoLoc EXCEPT !.localMeta = localMeta]

\* isUpToDate's comparison and EnsureDataset's use of the result: return nil
\* if up to date (what was compared stays on record with the return),
\* otherwise go on to downloadWithLock.
UpToDate(p) ==
  /\ pc[p] = "upToDate"
  /\ LET upToDate == IF loc[p].remoteMeta.state = "ok"
                       THEN isUpToDate(loc[p].localMeta, loc[p].remoteMeta)
                       ELSE OnProbeError
     IN IF upToDate
          THEN Return(p, "ok", "fresh") /\ UNCHANGED loc
          ELSE /\ Goto(p, downloadWithLock)
               /\ loc' = [loc EXCEPT ![p] = JudgedStale(loc[p].localMeta)]
               /\ UNCHANGED ret
  /\ UNCHANGED <<fsVars, remote, cfgVars, lockFile, fd, off, rdVars, srvVars, webVars, waited>>

\* ------------------------------------------------------- downloadWithLock
\* IgnoreLock: os.Stat(lockPath), os.Remove(lockPath) (a failure is only logged).
ForceUnlock(p) ==
  /\ pc[p] = "forceUnlock"
  /\ \E ok \in BOOLEAN : lockOwner' = IF ok THEN NoLock ELSE lockOwner
  /\ Goto(p, "acquireLock")
  /\ UNCHANGED <<path, ino, metadata, promoted, remote, cfgVars, lockFile, fd, off, loc, ret, rdVars, srvVars, webVars, waited>>

\* acquireLock and the branch on its error.
AcquireLock(p) ==
  /\ pc[p] = "acquireLock"
  /\ \E ioOk \in BOOLEAN :          \* MkdirAll / OpenFile may fail for other reasons
       IF ioOk /\ OpenExcl(lockOwner)
         THEN /\ lockOwner' = p
              /\ lockFile' = [lockFile EXCEPT ![p] = TRUE]
              /\ Goto(p, "downloadFile")
              /\ loc' = [loc EXCEPT ![p] = NoLoc]
         ELSE /\ UNCHANGED <<lockOwner, lockFile>>
              /\ Goto(p, OnLockError)
              /\ loc' = IF OnLockError = "wait" THEN loc ELSE [loc EXCEPT ![p] = NoLoc]
  /\ UNCHANGED <<path, ino, metadata, promoted, remote, cfgVars, fd, off, ret, rdVars, srvVars, webVars, waited>>

\* MkdirAll / Getwd / MkdirAll, then downloadFile: the GET request and
\* os.Create(tmpPath).
DownloadFile(p) ==
  /\ pc[p] = "downloadFile"
  /\ \/ /\ Goto(p, "returnErrNoTmp")                  \* a directory call failed
        /\ UNCHANGED <<path, ino, fd, off, loc>>
     \/ /\ Goto(p, "returnErr")                       \* GET or os.Create failed
        /\ UNCHANGED <<path, ino, fd, off, loc>>
     \/ LET i == CreateIno("tmp") IN
        /\ loc' = [loc EXCEPT ![p].body = remote,
                              ![p].old = IF SnapshotUsable
                                           THEN VersionOf(Content("snapshot"))
                                           ELSE 0]
        /\ path' = [path EXCEPT !["tmp"] = i]
        /\ ino' = [ino EXCEPT ![i] = <<>>]
        /\ fd' = [fd EXCEPT ![p].tmp = i]
        /\ off' = [off EXCEPT ![p] = 0]
        /\ Goto(p, "copyBody")
  /\ UNCHANGED <<metadata, lockOwner, promoted, remote, cfgVars, lockFile, ret, rdVars, srvVars, webVars, waited>>

\* downloadFile: io.Copy(file, resp.Body), one chunk per step, then Close.
DownloadChunk(p) ==
  /\ pc[p] = "copyBody"
  /\ LET closed == [fd EXCEPT ![p].tmp = 0] IN
     IF off[p] >= SizeOf(loc[p].body)
       THEN /\ fd' = closed
            /\ ino' = Gc(ino, path, closed)
            /\ off' = [off EXCEPT ![p] = 0]
            /\ loc' = [loc EXCEPT ![p].body = 0]
            /\ Goto(p, "saveMetadata")
       ELSE \/ /\ ino' = [ino EXCEPT ![fd[p].tmp] = WriteAt(@, off[p], loc[p].body)]
               /\ off' = [off EXCEPT ![p] = @ + 1]
               /\ UNCHANGED <<fd, pc, loc>>
            \/ /\ fd' = closed                        \* read or write error
               /\ ino' = Gc(ino, path, closed)
               /\ off' = [off EXCEPT ![p] = 0]
               /\ loc' = [loc EXCEPT ![p].body = 0]
               /\ Goto(p, "returnErr")
  /\ UNCHANGED <<path, metadata, lockOwner, promoted, remote, cfgVars, lockFile, ret, rdVars, srvVars, webVars, waited>>

\* The Metadata value downloadWithLock builds from the temp file and the ETag.
NewMetadata(c, e) == [present |-> TRUE, sha |-> computeSHA256(c), etag |-> e, size |-> Len(c)]

\* saveMetadata: os.WriteFile truncates and rewrites; an error is only
\* logged.  A failed write leaves the old file or an unparsable one.
saveMetadata(m) == {m, metadata, NoMeta}

\* computeSHA256(tmpPath), os.Stat(tmpPath), getRemoteMetadata (an error
\* leaves the ETag empty), saveMetadata.
SaveMetadata(p) ==
  /\ pc[p] = "saveMetadata"
  /\ \/ /\ Goto(p, "returnErr")                       \* sha or stat failed
        /\ UNCHANGED metadata
     \/ /\ Exists("tmp")
        /\ \E e \in {0, remote} :
             metadata' \in saveMetadata(NewMetadata(Content("tmp"), e))
        /\ Goto(p, "removeSnapshot")
  /\ UNCHANGED <<path, ino, lockOwner, promoted, remote, cfgVars, lockFile, fd, off, loc, ret, rdVars, srvVars, webVars, waited>>

\* os.Stat(parquetPath) and, if the file exists, os.Remove(parquetPath).
RemoveSnapshot(p) ==
  /\ pc[p] = "removeSnapshot"
  /\ IF Exists("snapshot")
       THEN \/ /\ Goto(p, "returnErr")                \* os.Remove failed
               /\ UNCHANGED <<path, ino>>
            \/ /\ LET pth == [path EXCEPT !["snapshot"] = 0] IN
                    /\ path' = pth
                    /\ ino' = Gc(ino, pth, fd)
               /\ Goto(p, "copyFile")
       ELSE /\ Goto(p, "copyFile")
            /\ UNCHANGED <<path, ino>>
  /\ UNCHANGED <<metadata, lockOwner, promoted, remote, cfgVars, lockFile, fd, off, loc, ret, rdVars, srvVars, webVars, waited>>

\* copyFile: os.Open(src), os.Create(dst)
CopyOpen(p) ==
  /\ pc[p] = "copyFile"
  /\ \/ /\ Goto(p, "returnErr")                       \* Open or Create failed
        /\ UNCHANGED <<path, ino, fd, off>>
     \/ /\ Exists("tmp")
        /\ LET i == CreateIno("snapshot") IN
             /\ path' = [path EXCEPT !["snapshot"] = i]
             /\ ino' = [ino EXCEPT ![i] = <<>>]
             /\ fd' = [fd EXCEPT ![p].src = path["tmp"], ![p].dst = i]
             /\ off' = [off EXCEPT ![p] = 0]
             /\ Goto(p, "copyData")
  /\ UNCHANGED <<metadata, lockOwner, promoted, remote, cfgVars, lockFile, loc, ret, rdVars, srvVars, webVars, waited>>

\* copyFile: io.Copy(dstFile, srcFile), one chunk per step, then both Close.
CopyChunk(p) ==
  /\ pc[p] = "copyData"
  /\ LET closed == [fd EXCEPT ![p] = NoFds]
         src == ino[fd[p].src]
     IN
     IF off[p] >= Len(src)
       THEN /\ fd' = closed
            /\ ino' = Gc(ino, path, closed)
            /\ off' = [off EXCEPT ![p] = 0]
            /\ Goto(p, "returnOk")
       ELSE \/ /\ ino' = [ino EXCEPT ![fd[p].dst] = WriteAt(@, off[p], src[off[p] + 1])]
               /\ off' = [off EXCEPT ![p] = @ + 1]
               /\ UNCHANGED <<fd, pc>>
            \/ /\ fd' = closed                        \* read or write error
               /\ ino' = Gc(ino, path, closed)
               /\ off' = [off EXCEPT ![p] = 0]
               /\ Goto(p, "returnErr")
  /\ promoted' = IF Exists("snapshot") /\ Complete(ino'[path["snapshot"]])
                   THEN promoted \cup {VersionOf(ino'[path["snapshot"]])}
                   ELSE promoted
  /\ UNCHANGED <<path, metadata, lockOwner, remote, cfgVars, lockFile, loc, ret, rdVars, srvVars, webVars, waited>>

\* (variant: the lock is released on the success path only)
ReleasesOnSuccessOnly == {"returnOk"}
\* The returns of downloadWithLock that run the deferred releaseLock: the
\* defer is registered before any of them.
ReleasesOn == {"returnOk", "returnErr", "returnErrNoTmp"}

\* The end of downloadWithLock: os.Remove(tmpPath) (on success and on every
\* error after the directories exist), the deferred releaseLock (only if
\* lockFile # nil), the return.
Finish(p) ==
  /\ pc[p] \in {"returnOk", "returnErr", "returnErrNoTmp"}
  /\ LET pth == IF pc[p] = "returnErrNoTmp" THEN path ELSE [path EXCEPT !["tmp"] = 0] IN
       /\ path' = pth
       /\ ino' = Gc(ino, pth, fd)
  /\ lockOwner' = IF lockFile[p] /\ pc[p] \in ReleasesOn
                    THEN releaseLock(lockOwner) ELSE lockOwner
  /\ lockFile' = [lockFile EXCEPT ![p] = FALSE]
  /\ loc' = [loc EXCEPT ![p] = NoLoc]
  /\ pc' = [pc EXCEPT ![p] = "done"]
  /\ ret' = [ret EXCEPT ![p] =
               Returned(p, IF pc[p] = "returnOk" THEN "ok" ELSE "err",
                        IF pc[p] = "returnErrNoTmp" THEN "setup" ELSE "download",
                        path'["tmp"])]
  /\ UNCHANGED <<metadata, promoted, remote, cfgVars, fd, off, rdVars, srvVars, webVars, waited>>

\* (variant: the timeout channel never delivers)
TimeoutNever(w) == FALSE
\* waitForDownload's timeout := time.After(10 * time.Minute): ready once
\* WaitTicks ticker periods have passed.
TimeoutReady(w) == w >= WaitTicks

\* waitForDownload, one round of its select served by a timer: the timeout
\* returns an error; a tick returns nil if os.Stat finds the snapshot path
\* and otherwise goes round again.  A tick that comes after the timeout is
\* due and finds nothing changes nothing.
WaitTimers(p) ==
  /\ pc[p] = "wait"
  /\ \/ /\ Exists("snapshot")
        /\ pc' = [pc EXCEPT ![p] = "done"]
        /\ ret' = [ret EXCEPT ![p] = Returned(p, "ok", "wait", 0)]
        /\ waited' = [waited EXCEPT ![p] = 0]
        /\ loc' = [loc EXCEPT ![p] = NoLoc]
     \/ /\ ~Exists("snapshot") /\ waited[p] < WaitTicks
        /\ waited' = [waited EXCEPT ![p] = @ + 1]
        /\ UNCHANGED <<pc, ret, loc>>
     \/ /\ TimeoutReady(waited[p])
        /\ pc' = [pc EXCEPT ![p] = "done"]
        /\ ret' = [ret EXCEPT ![p] = [Returned(p, "err", "wait", 0) EXCEPT !.err = "timeout"]]
        /\ waited' = [waited EXCEPT ![p] = 0]
        /\ loc' = [loc EXCEPT ![p] = NoLoc]
  /\ UNCHANGED <<fsVars, remote, cfgVars, lockFile, fd, off, rdVars, srvVars, webVars>>

\* waitForDownload, a round of its select served by ctx.Done(): ctx.Err().
WaitCtxDone(p) ==
  /\ pc[p] = "wait"
  /\ pc' = [pc EXCEPT ![p] = "done"]
  /\ ret' = [ret EXCEPT ![p] = [Returned(p, "err", "wait", 0) EXCEPT !.err = "canceled"]]
  /\ waited' = [waited EXCEPT ![p] = 0]
  /\ loc' = [loc EXCEPT ![p] = NoLoc]
  /\ UNCHANGED <<fsVars, remote, cfgVars, lockFile, fd, off, rdVars, srvVars, webVars>>

WaitForDownload(p) == WaitTimers(p) \/ WaitCtxDone(p)

\* One step of invocation p.
Manager(p) ==
  \/ EnsureDataset(p) \/ IsUpToDate(p) \/ UpToDate(p)
  \/ ForceUnlock(p) \/ AcquireLock(p)
  \/ DownloadFile(p) \/ DownloadChunk(p) \/ SaveMetadata(p)
  \/ RemoveSnapshot(p) \/ CopyOpen(p) \/ CopyChunk(p)
  \/ Finish(p) \/ WaitForDownload(p)

Next ==
  \/ RemotePublish
  \/ \E p \in Procs : Manager(p)

Spec == Init /\ [][Next]_vars

TypeOK ==
  /\ path \in [Paths -> {0} \cup Inodes]
  /\ lockOwner \in 0..(NumProcs + 1)
  /\ remote \in Versions
  /\ \A p \in Procs : off[p] \in 0..ChunkCount

\* ------------------------------------------------------- the query (reader)
maxRetries == 3

\* What a reader that opens the snapshot path now finds.
Observe ==
  IF ~Exists("snapshot") THEN "absent"
  ELSE IF Complete(Content("snapshot")) THEN "complete" ELSE "partial"

\* db.QueryContext over read_parquet(parquetPath): nil on a complete file, a
\* file-access error when the path resolves to nothing, another engine error
\* on a file that is not a whole parquet file.
QueryContext(obs) ==
  CASE obs = "complete" -> "nil"
    [] obs = "absent" -> "No such file"
    [] OTHER -> "invalid"

\* queryWithRetry's test for a temporary file access error.
IsFileAccessError(err) == err = "No such file"
\* (variant: every error is retried)
ShouldRetryAny(err, n) == n < maxRetries - 1
\* queryWithRetry retries only while attempt < maxRetries-1.
ShouldRetry(err, n) == IsFileAccessError(err) /\ n < maxRetries - 1

\* queryWithRetry: delay := baseDelay * time.Duration(1<<attempt), in ms.
baseDelay == 100
\* (variant: no doubling)
DelayFlat(n) == baseDelay
Delay(n) == baseDelay * 2^n

\* Some writer has removed (or is overwriting) the complete snapshot that
\* was there when its download started and has not finished its copy.
Replacing ==
  \E p \in Procs : pc[p] \in {"copyFile", "copyData"} /\ loc[p].old # 0

\* The positions of the two wrappers: queryWithRetry (exec, backoff) and
\* queryRowWithRetry (rowExec, rowFresh, rowBackoff).
WaitPcs == {"backoff", "rowBackoff"}
RunPcs == {"exec", "rowExec", "rowFresh"}

\* The caller's context: "none" while live, else where the wrapper was when
\* the context was cancelled ("backoff": inside the select, "exec": elsewhere).
Cancelled == qctx # "none"

\* A query is issued through queryWithRetry.
QueryStart ==
  /\ qpc = "idle"
  /\ qpc' = "exec" /\ attempt' = 0 /\ qret' = "none" /\ rdSeen' = "none"
  /\ qwaits' = <<>>
  /\ qkind' = "query" /\ qctx' = "none" /\ qexecs' = 0
  /\ qInWindow' = Replacing
  /\ UNCHANGED <<fsVars, remote, cfgVars, procVars, srvVars, webVars>>

\* The caller cancels the context of the running query.
QueryCancel ==
  /\ qpc \in WaitPcs \cup RunPcs
  /\ ~Cancelled
  /\ qctx' = IF qpc \in WaitPcs THEN "backoff" ELSE "exec"
  /\ UNCHANGED <<fsVars, remote, cfgVars, procVars, srvVars, webVars, qpc, attempt, qret,
                 rdSeen, qInWindow, qwaits, qkind, qexecs>>

\* db.QueryContext / db.QueryRowContext under the caller's context: with the
\* context done the call returns ctx.Err() and the engine is not run.
Execute == IF Cancelled THEN "cancelled" ELSE QueryContext(Observe)
Executed ==
  /\ rdSeen' = (IF Cancelled THEN rdSeen ELSE Observe)
  /\ qexecs' = (IF Cancelled THEN qexecs ELSE qexecs + 1)

\* queryWithRetry: one execution of the query and the decision on its error.
QueryExec ==
  /\ qpc = "exec"
  /\ Executed
  /\ LET err == Execute IN
       /\ qInWindow' = (qInWindow /\ (err = "nil" \/ Replacing))
       /\ IF err = "nil" THEN qpc' = "done" /\ qret' = "ok"
          ELSE IF ShouldRetry(err, attempt) THEN qpc' = "backoff" /\ UNCHANGED qret
          ELSE qpc' = "done" /\ qret' = err
  /\ UNCHANGED <<fsVars, remote, cfgVars, procVars, srvVars, webVars, attempt, qwaits,
                 qkind, qctx>>

\* queryWithRetry: the select between ctx.Done() and time.After(delay); with
\* both ready either case may be taken.
QueryBackoff ==
  /\ qpc = "backoff"
  /\ \/ /\ qpc' = "exec" /\ attempt' = attempt + 1
        /\ qwaits' = Append(qwaits, Delay(attempt))
        /\ UNCHANGED qret
     \/ /\ Cancelled
        /\ qpc' = "done" /\ qret' = "cancelled" /\ UNCHANGED <<attempt, qwaits>>
  /\ UNCHANGED <<fsVars, remote, cfgVars, procVars, srvVars, webVars, rdSeen, qInWindow,
                 qkind, qctx, qexecs>>

\* The caller has its answer; the next query may be issued.
QueryReturn ==
  /\ qpc = "done"
  /\ qpc' = "idle" /\ attempt' = 0 /\ qret' = "none" /\ rdSeen' = "none"
  /\ qwaits' = <<>>
  /\ qkind' = "none" /\ qctx' = "none" /\ qexecs' = 0
  /\ qInWindow' = TRUE
  /\ UNCHANGED <<fsVars, remote, cfgVars, procVars, srvVars, webVars>>

\* Queries running beside one refreshing invocation.
NextRead ==
  \/ RemotePublish
  \/ Manager(1)
  \/ QueryStart \/ QueryCancel \/ QueryExec \/ QueryBackoff \/ QueryReturn

SpecRead == Init /\ [][NextRead]_vars

\* A single-row query is issued through queryRowWithRetry.
RowStart ==
  /\ qpc = "idle"
  /\ qpc' = "rowExec" /\ attempt' = 0 /\ qret' = "none" /\ rdSeen' = "none"
  /\ qwaits' = <<>>
  /\ qkind' = "row" /\ qctx' = "none" /\ qexecs' = 0
  /\ qInWindow' = Replacing
  /\ UNCHANGED <<fsVars, remote, cfgVars, procVars, srvVars, webVars>>

\* queryRowWithRetry: QueryRowContext, the test Scan and the decision on its
\* error; qret holds the error carried by the row of this attempt.
RowExec ==
  /\ qpc = "rowExec"
  /\ Executed
  /\ LET err == Execute IN
       /\ qInWindow' = (qInWindow /\ (err = "nil" \/ Replacing))
       /\ qret' = err
       /\ qpc' = IF err = "nil" THEN "rowFresh"
                 ELSE IF ShouldRetry(err, attempt) THEN "rowBackoff" ELSE "done"
  /\ UNCHANGED <<fsVars, remote, cfgVars, procVars, srvVars, webVars, attempt, qwaits,
                 qkind, qctx>>

\* queryRowWithRetry after a clean test Scan: the query is executed once
\* more and that fresh row is what the caller gets.
RowFresh ==
  /\ qpc = "rowFresh"
  /\ Executed
  /\ LET err == Execute IN
       /\ qInWindow' = (qInWindow /\ (err = "nil" \/ Replacing))
       /\ qret' = IF err = "nil" THEN "ok" ELSE err
       /\ qpc' = "done"
  /\ UNCHANGED <<fsVars, remote, cfgVars, procVars, srvVars, webVars, attempt, qwaits,
                 qkind, qctx>>

\* queryRowWithRetry: the select between ctx.Done(), which returns the row
\* of the failed attempt, and time.After(delay).
RowBackoff ==
  /\ qpc = "rowBackoff"
  /\ \/ /\ qpc' = "rowExec" /\ attempt' = attempt + 1
        /\ qwaits' = Append(qwaits, Delay(attempt))
        /\ UNCHANGED qret
     \/ /\ Cancelled
        /\ qpc' = "done" /\ UNCHANGED <<qret, attempt, qwaits>>
  /\ UNCHANGED <<fsVars, remote, cfgVars, procVars, srvVars, webVars, rdSeen, qInWindow,
                 qkind, qctx, qexecs>>

\* Queries through either wrapper beside one refreshing invocation.
NextRow ==
  \/ NextRead
  \/ RowStart \/ RowExec \/ RowFresh \/ RowBackoff

SpecRow == Init /\ [][NextRow]_vars

\* ------------------------------------------------------- the serving process
\* The two ways the HTTP mode is started: cmd.runHTTPMode, which builds the
\* dataset manager itself, and server.MCPServer.Start.
Entries == {"runHTTPMode", "MCPServer.Start"}
\* config.RefreshIntervalSeconds: 0 (off) or a positive number of seconds.
Intervals == {0, 1}

\* The process is started in HTTP mode.
Launch ==
  /\ srv = "off"
  /\ \E e \in Entries, i \in Intervals : entry' = e /\ interval' = i
  /\ srv' = "starting"
  /\ UNCHANGED <<fsVars, remote, cfgVars, procVars, rdVars, webVars,
                 loop, tickReady, ctxDone, refreshes, failures, late>>

\* Whether the start-up starts the refresh goroutine: MCPServer.Start does
\* if the interval is positive; runHTTPMode has no such call.
StartsRefreshLoop(e, i) == e = "MCPServer.Start" /\ i > 0

\* Start-up after the first EnsureDataset has returned: an error ends the
\* process; otherwise the query engine is made and tested (which may fail),
\* the refresh loop is started if configured, and the server listens.
Started ==
  /\ srv = "starting" /\ pc[1] = "done"
  /\ \/ /\ srv' = "failed"
        /\ UNCHANGED loop
        /\ UNCHANGED <<listening, engine>>
     \/ /\ ret[1].status = "ok"
        /\ srv' = "serving"
        /\ loop' = IF StartsRefreshLoop(entry, interval) THEN "select" ELSE "none"
        /\ engine' = "open" /\ listening' = TRUE
  /\ UNCHANGED <<fsVars, remote, cfgVars, procVars, rdVars, healthVars, httpVars, libVars,
                 sig, inflight, swait, cut,
                 entry, interval, tickReady, ctxDone, refreshes, failures, late>>

\* EnsureDataset runs in the process only when start-up or the refresh loop
\* has called it.
Serving == (srv = "starting" \/ loop = "refresh") /\ Manager(1)

\* The ticker of the refresh loop fires; ticker.C holds one tick, further
\* ticks are dropped until it is received.
Tick ==
  /\ loop \in {"select", "refresh"} /\ ~tickReady
  /\ tickReady' = TRUE
  /\ UNCHANGED <<fsVars, remote, cfgVars, procVars, rdVars, webVars,
                 entry, interval, srv, loop, ctxDone, refreshes, failures, late>>

\* The context handed to the refresh loop is cancelled.
Cancel ==
  /\ loop \in {"select", "refresh"} /\ ~ctxDone
  /\ ctxDone' = TRUE
  /\ UNCHANGED <<fsVars, remote, cfgVars, procVars, rdVars, webVars,
                 entry, interval, srv, loop, tickReady, refreshes, failures, late>>

\* startRefreshLoop, case <-ticker.C: the select may take this case whenever
\* a tick is ready, whether or not ctx.Done() is ready too, and calls
\* EnsureDataset.
LoopRefresh ==
  /\ loop = "select" /\ tickReady /\ refreshes < MaxRefreshes
  /\ tickReady' = FALSE
  /\ loop' = "refresh"
  /\ refreshes' = refreshes + 1
  /\ late' = (late \/ ctxDone)
  /\ pc' = [pc EXCEPT ![1] = "idle"]
  /\ ret' = [ret EXCEPT ![1] = NotReturned]
  /\ loc' = [loc EXCEPT ![1] = NoLoc]
  /\ UNCHANGED <<fsVars, remote, cfgVars, lockFile, fd, off, waited, rdVars, webVars,
                 entry, interval, srv, ctxDone, failures>>

\* startRefreshLoop: EnsureDataset has returned; an error is logged and the
\* loop goes back to its select.
LoopReturn ==
  /\ loop = "refresh" /\ pc[1] = "done"
  /\ loop' = "select"
  /\ failures' = IF ret[1].status = "err" THEN failures + 1 ELSE failures
  /\ UNCHANGED <<fsVars, remote, cfgVars, procVars, rdVars, webVars,
                 entry, interval, srv, tickReady, ctxDone, refreshes, late>>

\* startRefreshLoop, case <-ctx.Done(): the goroutine returns.
LoopStop ==
  /\ loop = "select" /\ ctxDone
  /\ loop' = "stopped"
  /\ UNCHANGED <<fsVars, remote, cfgVars, procVars, rdVars, webVars,
                 entry, interval, srv, tickReady, ctxDone, refreshes, failures, late>>

NextServe ==
  \/ RemotePublish
  \/ Launch \/ Started \/ Serving
  \/ Tick \/ Cancel \/ LoopRefresh \/ LoopReturn \/ LoopStop

SpecServe == Init /\ [][NextServe]_vars

\* ------------------------------------------------------- the health cache
\* Everything outside the HTTP front of the server.
progVars == <<fsVars, remote, cfgVars, procVars, rdVars, srvVars, libVars>>

\* (variants: the cache test always fails / always succeeds)
FreshNever(t) == FALSE
FreshAlways(t) == TRUE
\* checkHealthWithCache: time.Since(s.lastHealthCheck) < cacheDuration.
Fresh(t) == t - lastHealthCheck < cacheDuration
\* (variant: no second test under the write lock)
DoubleCheckSkipped(t) == FALSE
\* checkHealthWithCache: the same test again once the write lock is held.
DoubleCheck(t) == Fresh(t)

\* A GET /health request arrives and its handler calls checkHealthWithCache.
HealthCall(c) ==
  /\ hpc[c] = "idle" /\ probes < MaxProbes
  /\ hpc' = [hpc EXCEPT ![c] = "called"]
  /\ hcall' = [hcall EXCEPT ![c] =
                 [at |-> hnow, fresh |-> hnow - lastHealthCheck < cacheDuration,
                  cached |-> lastHealthError, seen |-> probes, round |-> 0,
                  expired |-> FALSE]]
  /\ hres' = [hres EXCEPT ![c] = NoHealth]
  /\ UNCHANGED <<progVars, httpVars, stopVars, hnow, lastHealthCheck, lastHealthError, healthMu, probes>>

\* checkHealthWithCache under healthMu.RLock(), which waits while a writer
\* holds the lock: a fresh cache is returned, else the caller goes for the
\* write lock.
FirstCheck(c) ==
  /\ hpc[c] = "called" /\ healthMu = 0
  /\ IF Fresh(hnow)
     THEN /\ hpc' = [hpc EXCEPT ![c] = "done"]
          /\ hres' = [hres EXCEPT ![c] = [val |-> lastHealthError, probed |-> FALSE]]
          /\ UNCHANGED hcall
     ELSE /\ hpc' = [hpc EXCEPT ![c] = "lock"]
          /\ hcall' = [hcall EXCEPT ![c].round = probes, ![c].expired = TRUE]
          /\ UNCHANGED hres
  /\ UNCHANGED <<progVars, httpVars, stopVars, hnow, lastHealthCheck, lastHealthError, healthMu, probes>>

\* checkHealthWithCache under healthMu.Lock(): the double check returns the
\* cache (the deferred Unlock frees the lock), else the probe starts with the
\* lock held.
SecondCheck(c) ==
  /\ hpc[c] = "lock" /\ healthMu = 0
  /\ IF DoubleCheck(hnow)
     THEN /\ hpc' = [hpc EXCEPT ![c] = "done"]
          /\ hres' = [hres EXCEPT ![c] = [val |-> lastHealthError, probed |-> FALSE]]
          /\ UNCHANGED healthMu
     ELSE /\ hpc' = [hpc EXCEPT ![c] = "probe"]
          /\ healthMu' = c
          /\ UNCHANGED hres
  /\ UNCHANGED <<progVars, httpVars, stopVars, hnow, lastHealthCheck, lastHealthError, hcall, probes>>

\* What queryEngine.HealthCheck(ctx), a COUNT(*) probe of the snapshot,
\* returns: nil, an engine error, or the context's error when the request
\* that started the probe is cancelled or times out while it runs.
ProbeResults == {"nil", "unhealthy", "cancelled"}

\* queryEngine.HealthCheck returns; its result and time.Now() go into the
\* cache and the deferred Unlock frees the lock.
HealthCheck(c) ==
  /\ hpc[c] = "probe"
  /\ \E err \in ProbeResults :
       LET r == [err |-> err, probe |-> probes + 1] IN
         /\ lastHealthError' = r
         /\ hres' = [hres EXCEPT ![c] = [val |-> r, probed |-> TRUE]]
  /\ lastHealthCheck' = hnow
  /\ probes' = probes + 1
  /\ healthMu' = 0
  /\ hpc' = [hpc EXCEPT ![c] = "done"]
  /\ UNCHANGED <<progVars, httpVars, stopVars, hnow, hcall>>

\* The handler has written its response.
HealthReturn(c) ==
  /\ hpc[c] = "done"
  /\ hpc' = [hpc EXCEPT ![c] = "idle"]
  /\ hcall' = [hcall EXCEPT ![c] = NoCall]
  /\ hres' = [hres EXCEPT ![c] = NoHealth]
  /\ UNCHANGED <<progVars, httpVars, stopVars, hnow, lastHealthCheck, lastHealthError, healthMu, probes>>

\* A caller that can take its next step without waiting for a lock or for
\* the engine.
Runnable(c) == hpc[c] \in {"called", "lock"} /\ healthMu = 0

\* A second passes.  The steps of checkHealthWithCache other than the probe
\* and the waits for healthMu take no time on the scale of cacheDuration.
HealthTick ==
  /\ hnow < MaxTime
  /\ \A c \in Callers : ~Runnable(c)
  /\ hnow' = hnow + 1
  /\ UNCHANGED <<progVars, httpVars, stopVars, lastHealthCheck, lastHealthError, healthMu, hpc, hcall,
                 hres, probes>>

InitHealth ==
  Init /\ ~ignoreLock /\ ~disableRemoteCheck /\ lockOwner = NoLock /\ Exists("snapshot")

NextHealth ==
  \/ HealthTick
  \/ \E c \in Callers :
       \/ HealthCall(c) \/ FirstCheck(c) \/ SecondCheck(c)
       \/ HealthCheck(c) \/ HealthReturn(c)

SpecHealth == InitHealth /\ [][NextHealth]_vars

\* ------------------------------------------------------- the /mcp endpoint
\* Strings are sequences of characters.
bearerPrefix == <<"B", "e", "a", "r", "e", "r", " ">>
\* strings.HasPrefix and strings.TrimPrefix.
HasPrefix(str, prefix) ==
  Len(str) >= Len(prefix) /\ SubSeq(str, 1, Len(prefix)) = prefix
TrimPrefix(str, prefix) ==
  IF HasPrefix(str, prefix) THEN SubSeq(str, Len(prefix) + 1, Len(str)) ELSE str

\* (variant: no test for the empty token)
IsAuthorizedEmptyAllowed(authHeader, token) ==
  /\ authHeader # <<>>
  /\ HasPrefix(authHeader, bearerPrefix)
  /\ TrimPrefix(authHeader, bearerPrefix) = token
\* BearerTokenAuth.IsAuthorized on the value of the Authorization header
\* (Header.Get gives "" when the header is absent).
IsAuthorized(authHeader, token) ==
  IF authHeader = <<>> THEN FALSE
  ELSE IF ~HasPrefix(authHeader, bearerPrefix) THEN FALSE
  ELSE LET t == TrimPrefix(authHeader, bearerPrefix) IN
         IF t = <<>> THEN FALSE ELSE t = token

\* Tokens: the strings of up to MaxTokenLen characters over two characters.
TokenChars == {"s", "t"}
Tokens == UNION {[1..n -> TokenChars] : n \in 0..MaxTokenLen}
\* What a client may put before the token: nothing, the scheme as BearerTokenAuth
\* wants it, the scheme without its space, in lower case, another scheme.
Schemes ==
  {<<>>, bearerPrefix, <<"B", "e", "a", "r", "e", "r">>,
   <<"b", "e", "a", "r", "e", "r", " ">>, <<"B", "a", "s", "i", "c", " ">>}
Headers == {sch \o tok : sch \in Schemes, tok \in Tokens}
Methods == {"POST", "GET", "OPTIONS"}
\* The two /mcp handlers: mcpgo.Server.ServeHTTP and mcp.Server.CreateHandler.
Impls == {"mcpgo", "mcp"}
\* Where the handling of a request may panic: in the handler before it
\* forwards, in the dispatcher, in a tool handler.
PanicPoints == {"handler", "dispatcher", "tool"}

\* (variant: the 401 without its WWW-Authenticate header)
UnauthorizedBare == [status |-> 401, wwwAuth |-> "", text |-> <<"Unauthorized">>]
\* SetUnauthorizedHeaders, then status 401 and a short body.
Unauthorized == [status |-> 401, wwwAuth |-> "Bearer", text |-> <<"Unauthorized">>]
\* (variant: no recover, the connection is dropped without a response)
RecoveredSilently == [status |-> 0, wwwAuth |-> "", text |-> <<>>]
\* ServeHTTP's deferred recover: status 500, "Internal Server Error".
Recovered == [status |-> 500, wwwAuth |-> "", text |-> <<"Internal Server Error">>]
\* What the tool handlers put in the tool result when the engine fails:
\* fmt.Sprintf("Search failed: %v", err), whatever the environment.
ToolErrorText(env, raw) == <<"Search failed", raw>>
\* server.WithRecovery: a panic in a tool handler becomes the tool call's
\* error and is reported in the JSON-RPC response.
ToolPanicText == <<"panic recovered in tool handler">>

\* runHTTPMode / MCPServer.Start: the configuration is loaded and the
\* authenticator and the server are made.
Configure ==
  /\ hst = "boot"
  /\ \E tok \in Tokens, env \in {"production", "development"}, i \in Impls :
       authToken' = tok /\ environment' = env /\ impl' = i
  /\ hst' = "idle"
  /\ UNCHANGED <<progVars, healthVars, stopVars, hreq, resp, invoked, served, panics>>

\* A request arrives at /mcp.  Panics are followed through ServeHTTP's
\* handler, the one that defers a recover.
McpRequest ==
  /\ hst = "idle" /\ served < MaxRequests
  /\ \E m \in Methods, h \in Headers, r \in {"tools/list", "tools/call"},
        pa \in PanicPoints \cup {"none"} :
       /\ pa # "none" => impl = "mcpgo"
       /\ hreq' = [NoReq EXCEPT !.method = m, !.header = h, !.rpc = r, !.panicAt = pa]
  /\ hst' = "recv"
  /\ resp' = NoResp /\ invoked' = {}
  /\ UNCHANGED <<progVars, healthVars, stopVars, authToken, environment, impl, served,
                 panics>>

\* The handler up to the point where it forwards the request.  ServeHTTP:
\* recover deferred, then the authentication test.  CreateHandler: CORS
\* headers, OPTIONS answered 200, any method but POST answered 405, then the
\* authentication test.
Gate ==
  /\ hst = "recv"
  /\ IF impl = "mcpgo" /\ hreq.panicAt = "handler"
     THEN hst' = "responded" /\ resp' = Recovered /\ UNCHANGED <<hreq, invoked>>
     ELSE IF impl = "mcp" /\ hreq.method = "OPTIONS"
     THEN /\ hst' = "responded" /\ resp' = [NoResp EXCEPT !.status = 200]
          /\ UNCHANGED <<hreq, invoked>>
     ELSE IF impl = "mcp" /\ hreq.method # "POST"
     THEN /\ hst' = "responded"
          /\ resp' = [NoResp EXCEPT !.status = 405, !.text = <<"Method not allowed">>]
          /\ UNCHANGED <<hreq, invoked>>
     ELSE IF ~IsAuthorized(hreq.header, authToken)
     THEN /\ hst' = "responded" /\ resp' = Unauthorized
          /\ hreq' = [hreq EXCEPT !.auth = "rejected"]
          /\ UNCHANGED invoked
     ELSE /\ hst' = "dispatch"
          /\ hreq' = [hreq EXCEPT !.auth = "ok"]
          /\ invoked' = {"dispatcher"}
          /\ UNCHANGED resp
  /\ UNCHANGED <<progVars, healthVars, stopVars, authToken, environment, impl, served,
                 panics>>

\* The dispatcher (streamableServer.ServeHTTP / handleJSONRPC): a panic of
\* its own reaches ServeHTTP's recover; tools/list is answered; tools/call
\* runs the tool handler.
Dispatch ==
  /\ hst = "dispatch"
  /\ IF hreq.panicAt = "dispatcher"
     THEN hst' = "responded" /\ resp' = Recovered /\ UNCHANGED invoked
     ELSE IF hreq.rpc = "tools/list"
     THEN /\ hst' = "responded"
          /\ resp' = [NoResp EXCEPT !.status = 200, !.text = <<"tools">>]
          /\ UNCHANGED invoked
     ELSE /\ hst' = "tool" /\ invoked' = invoked \cup {"tool"} /\ UNCHANGED resp
  /\ UNCHANGED <<progVars, healthVars, stopVars, authToken, environment, impl, hreq,
                 served, panics>>

\* handleSearchProducts / handleSearchByBarcode: the engine is called and
\* its error, if any, goes into the tool result.  A panic here is caught by
\* the MCP server's recovery middleware and answered in the JSON-RPC response.
ToolCall ==
  /\ hst = "tool"
  /\ IF hreq.panicAt = "tool"
     THEN /\ resp' = [NoResp EXCEPT !.status = 200, !.text = ToolPanicText]
          /\ UNCHANGED <<hreq, invoked>>
     ELSE /\ invoked' = invoked \cup {"engine"}
          /\ \E err \in {"nil", "No such file", "invalid"} :
               /\ hreq' = [hreq EXCEPT !.engineErr = err]
               /\ resp' = [NoResp EXCEPT
                             !.status = 200,
                             !.text = IF err = "nil" THEN <<"products">>
                                      ELSE ToolErrorText(environment, err)]
  /\ hst' = "responded"
  /\ UNCHANGED <<progVars, healthVars, stopVars, authToken, environment, impl, served,
                 panics>>

\* The handling of the request in the handler has panicked.
Panicked ==
  \/ hreq.panicAt = "handler"
  \/ hreq.panicAt = "dispatcher" /\ "dispatcher" \in invoked
  \/ hreq.panicAt = "tool" /\ "tool" \in invoked

\* The response is out; the server takes the next request.
McpDone ==
  /\ hst = "responded"
  /\ hst' = "idle" /\ served' = served + 1
  /\ panics' = IF Panicked THEN panics + 1 ELSE panics
  /\ hreq' = NoReq /\ resp' = NoResp /\ invoked' = {}
  /\ UNCHANGED <<progVars, healthVars, stopVars, authToken, environment, impl>>

InitHTTP == InitHealth

NextHTTP ==
  \/ Configure \/ McpRequest \/ Gate \/ Dispatch \/ ToolCall \/ McpDone

SpecHTTP == InitHTTP /\ [][NextHTTP]_vars

\* ------------------------------------------------------- shutdown
\* HTTPShutdownTimeout = 30 * time.Second, in seconds.
HTTPShutdownTimeout == 30

\* Whether the start-up registers for SIGINT and SIGTERM: MCPServer.Start
\* does (signal.Notify); runHTTPMode, which ends in http.ListenAndServe,
\* does not, and the signal then has its default effect.
HandlesSignals(e) == e = "MCPServer.Start"

\* The listener accepts a connection and a handler starts.
Accept ==
  /\ srv = "serving" /\ listening /\ inflight < MaxInflight
  /\ inflight' = inflight + 1
  /\ UNCHANGED <<progVars, healthVars, httpVars, sig, listening, engine, swait, cut>>

\* A handler returns.
HandlerDone ==
  /\ srv \in {"serving", "stopping", "closing"} /\ inflight > 0
  /\ inflight' = inflight - 1
  /\ UNCHANGED <<progVars, healthVars, httpVars, sig, listening, engine, swait, cut>>

\* SIGINT or SIGTERM is delivered: into sigChan if the process registered
\* for it; otherwise the process is terminated where it stands, its handlers
\* with it and its engine never closed.
Signal ==
  /\ srv = "serving" /\ ~sig
  /\ sig' = TRUE
  /\ IF HandlesSignals(entry)
     THEN UNCHANGED <<srv, listening, cut>>
     ELSE srv' = "exited" /\ listening' = FALSE /\ cut' = inflight
  /\ UNCHANGED <<fsVars, remote, cfgVars, procVars, rdVars, healthVars, httpVars, libVars,
                 entry, interval, loop, tickReady, ctxDone, refreshes, failures, late,
                 inflight, engine, swait>>

\* MCPServer.Start after <-sigChan: server.Shutdown under a context with
\* HTTPShutdownTimeout closes the listener and begins to wait.
BeginShutdown ==
  /\ srv = "serving" /\ sig
  /\ srv' = "stopping" /\ listening' = FALSE /\ swait' = 0
  /\ UNCHANGED <<fsVars, remote, cfgVars, procVars, rdVars, healthVars, httpVars, libVars,
                 entry, interval, loop, tickReady, ctxDone, refreshes, failures, late,
                 sig, inflight, engine, cut>>

\* A second of server.Shutdown's wait passes with handlers still running.
StopTick ==
  /\ srv = "stopping" /\ inflight > 0 /\ swait < HTTPShutdownTimeout
  /\ swait' = swait + 1
  /\ UNCHANGED <<progVars, healthVars, httpVars, sig, listening, inflight, engine, cut>>

\* server.Shutdown returns: no handler is left, or its context has expired.
ShutdownReturns ==
  /\ srv = "stopping" /\ (inflight = 0 \/ swait = HTTPShutdownTimeout)
  /\ srv' = "closing" /\ cut' = inflight
  /\ UNCHANGED <<fsVars, remote, cfgVars, procVars, rdVars, healthVars, httpVars, libVars,
                 entry, interval, loop, tickReady, ctxDone, refreshes, failures, late,
                 sig, listening, inflight, engine, swait>>

\* MCPServer.Start: queryEngine.Close(), then Start returns and the process
\* ends.
CloseEngine ==
  /\ srv = "closing"
  /\ engine' = "closed" /\ srv' = "exited"
  /\ UNCHANGED <<fsVars, remote, cfgVars, procVars, rdVars, healthVars, httpVars, libVars,
                 entry, interval, loop, tickReady, ctxDone, refreshes, failures, late,
                 sig, listening, inflight, swait, cut>>

NextStop ==
  \/ RemotePublish
  \/ Launch \/ Started \/ Serving
  \/ Accept \/ HandlerDone \/ Signal
  \/ BeginShutdown \/ StopTick \/ ShutdownReturns \/ CloseEngine

SpecStop == Init /\ [][NextStop]_vars

\* What the actions of one library area leave alone.
coreVars == <<fsVars, remote, cfgVars, procVars, rdVars, srvVars, healthVars,
              httpVars, stopVars>>
restTool == <<coreVars, engVars, nutVars, envVars>>
restEng == <<coreVars, toolVars, nutVars, envVars>>
restNut == <<coreVars, toolVars, engVars, envVars>>
restEnv == <<coreVars, toolVars, engVars, nutVars>>

\* ------------------------------------------------------- the search tools
\* Go's int, IntBits wide.
MinInt == 0 - 2^(IntBits - 1)
MaxInt == 2^(IntBits - 1) - 1

\* A JSON number is carried as a float64; the model counts it in tenths.
Tenths == 10
\* The whole number next to a float64 toward zero.
Trunc(t) == IF t >= 0 THEN t \div Tenths ELSE 0 - ((0 - t) \div Tenths)
\* int(limitFloat): truncation toward zero when the result fits an int;
\* otherwise the result is implementation-dependent: the smallest int on
\* amd64, the nearest int on arm64.
FloatToInt(t) ==
  IF Trunc(t) >= MinInt /\ Trunc(t) <= MaxInt THEN {Trunc(t)}
  ELSE {MinInt, IF t > 0 THEN MaxInt ELSE MinInt}

\* request.GetFloat("limit", 3.0).
defaultLimit == 3
maxLimit == 10
GetFloat(arg) == IF arg.set THEN arg.v ELSE defaultLimit * Tenths
\* handleSearchProducts: limit <= 0 becomes 3, limit > 10 becomes 10.
Clamp(limit) ==
  IF limit <= 0 THEN defaultLimit
  ELSE IF limit > maxLimit THEN maxLimit ELSE limit

\* The values of a string argument: absent, of another JSON type, empty, or
\* a non-empty string.
StringArgs == {"missing", "wrongType", "", "a"}
\* request.RequireString: an error unless the argument is there and a string.
RequireString(arg) == arg \notin {"missing", "wrongType"}
\* len(s) of a string argument.
StrLen(arg) == IF arg = "" THEN 0 ELSE 1
LimitArgs ==
  {[set |-> FALSE, v |-> 0]}
    \cup {[set |-> TRUE, v |-> t] : t \in (0 - MaxLimitTenths)..MaxLimitTenths}

\* mcp.NewToolResultError(text): an in-band result with isError set.
NewToolResultError(text) == [isError |-> TRUE, rpcError |-> FALSE, text |-> text]

\* The dispatcher calls handleSearchProducts or
\* handleSearchProductsSimplified with the arguments of a tools/call.
ToolStart ==
  /\ tpc = "idle"
  /\ \E n \in StringArgs, b \in StringArgs, l \in LimitArgs :
       tcall' = [name |-> n, brand |-> b, limit |-> l]
  /\ tpc' = "args" /\ tlimit' = 0 /\ tres' = NoToolResult /\ tqueries' = 0
  /\ UNCHANGED <<restTool>>

\* (variant: the length tests left out)
TooShortNever(arg) == FALSE
\* len(name) < 1, len(brand) < 1.
TooShort(arg) == StrLen(arg) < 1

\* The handler's argument tests, in its order: name required, brand
\* required, name not empty, brand not empty.
ToolArgs ==
  /\ tpc = "args"
  /\ IF ~RequireString(tcall.name)
     THEN tpc' = "done" /\ tres' = NewToolResultError(<<"Missing required parameter", "name">>)
     ELSE IF ~RequireString(tcall.brand)
     THEN tpc' = "done" /\ tres' = NewToolResultError(<<"Missing required parameter", "brand">>)
     ELSE IF TooShort(tcall.name)
     THEN tpc' = "done" /\ tres' = NewToolResultError(<<"Parameter must be at least 1 character long", "name">>)
     ELSE IF TooShort(tcall.brand)
     THEN tpc' = "done" /\ tres' = NewToolResultError(<<"Parameter must be at least 1 character long", "brand">>)
     ELSE tpc' = "limit" /\ UNCHANGED tres
  /\ UNCHANGED <<restTool, tcall, tlimit, tqueries>>

\* The handler reads and clamps the limit and calls the engine with it.
ToolLimit ==
  /\ tpc = "limit"
  /\ \E i \in FloatToInt(GetFloat(tcall.limit)) : tlimit' = Clamp(i)
  /\ tqueries' = tqueries + 1
  /\ tpc' = "engine"
  /\ UNCHANGED <<restTool, tcall, tres>>

\* The engine returns; an error goes into an in-band error result.
ToolEngine ==
  /\ tpc = "engine"
  /\ \E err \in {"nil", "invalid"} :
       tres' = IF err = "nil" THEN [NoToolResult EXCEPT !.text = <<"products">>]
               ELSE NewToolResultError(ToolErrorText(environment, err))
  /\ tpc' = "done"
  /\ UNCHANGED <<restTool, tcall, tlimit, tqueries>>

\* The result is handed to the dispatcher.
ToolReturn ==
  /\ tpc = "done"
  /\ tpc' = "idle" /\ tcall' = NoToolCall /\ tlimit' = 0 /\ tres' = NoToolResult
  /\ tqueries' = 0
  /\ UNCHANGED <<restTool>>

NextTool == ToolStart \/ ToolArgs \/ ToolLimit \/ ToolEngine \/ ToolReturn

SpecTool == InitHealth /\ [][NextTool]_vars

\* ------------------------------------------------------ the engine's searches
\* sql.NullString: a column value that may be NULL.
Null == [Valid |-> FALSE, String |-> ""]
Str(s) == [Valid |-> TRUE, String |-> s]
\* The rows a product dataset can hold: the code, name and brands columns
\* are nullable and carry no constraint.
Codes == {Null, Str(""), Str("c1")}
Names == {Null, Str("a")}
Brands == {Null, Str("x")}
RowsOf == [code : Codes, product_name_text : Names, brands_text : Brands]
Datasets == UNION {[1..n -> RowsOf] : n \in 0..MaxRows}

\* col IS NOT NULL AND col ILIKE '%pat%'.
ILike(col, pat) == col.Valid /\ (pat = "" \/ col.String = pat)

\* The WHERE clause of the query SearchProductsByBrandAndName builds for
\* its arguments: both filters, brand only, name only, or none.
Where(row, name, brand) ==
  IF name # "" /\ brand # ""
  THEN ILike(row.brands_text, brand) /\ ILike(row.product_name_text, name)
  ELSE IF brand # "" THEN ILike(row.brands_text, brand)
  ELSE IF name # "" THEN ILike(row.product_name_text, name)
  ELSE row.product_name_text.Valid
\* WHERE code = ? of SearchByBarcode.
WhereCode(row, barcode) == row.code.Valid /\ row.code.String = barcode

\* The row numbers a query can return: the matching rows, cut to the LIMIT
\* (which rows among equals is up to the engine).
Selections(matching, limit) ==
  {s \in SUBSET matching :
     Cardinality(s) = IF Cardinality(matching) < limit
                      THEN Cardinality(matching) ELSE limit}
RECURSIVE InOrder(_)
InOrder(s) ==
  IF s = {} THEN <<>>
  ELSE LET i == CHOOSE i \in s : \A j \in s : i <= j
       IN <<dataset[i]>> \o InOrder(s \ {i})

\* rows.Scan into NullStrings, then "if codeStr.Valid { p.Code = ... }".
ScanRow(row) ==
  [Code |-> IF row.code.Valid THEN row.code.String ELSE "",
   ProductName |-> IF row.product_name_text.Valid
                   THEN row.product_name_text.String ELSE "",
   Brands |-> IF row.brands_text.Valid THEN row.brands_text.String ELSE ""]

\* A search or a barcode lookup is called on some dataset.
EngineCall ==
  /\ epc = "idle"
  /\ dataset' \in Datasets
  /\ \/ \E n \in {"", "a"}, b \in {"", "x"}, l \in 1..MaxRows :
          ecall' = [kind |-> "search", name |-> n, brand |-> b, barcode |-> "",
                    limit |-> l]
     \/ \E c \in {"", "c1", "c2"} :
          ecall' = [kind |-> "barcode", name |-> "", brand |-> "", barcode |-> c,
                    limit |-> 1]
  /\ epc' = "query" /\ erows' = <<>> /\ results' = <<>>
  /\ UNCHANGED <<restEng>>

\* queryWithRetry: the query runs on the snapshot.
EngineQuery ==
  /\ epc = "query"
  /\ LET matching == {i \in DOMAIN dataset :
                        IF ecall.kind = "search"
                        THEN Where(dataset[i], ecall.name, ecall.brand)
                        ELSE WhereCode(dataset[i], ecall.barcode)}
     IN \E s \in Selections(matching, ecall.limit) : erows' = InOrder(s)
  /\ epc' = "scan"
  /\ UNCHANGED <<restEng, dataset, ecall, results>>

\* The rows are scanned into products; the barcode lookup takes the first
\* row, if there is one.
EngineScan ==
  /\ epc = "scan"
  /\ results' = [i \in DOMAIN erows |-> ScanRow(erows[i])]
  /\ epc' = "done"
  /\ UNCHANGED <<restEng, dataset, ecall, erows>>

\* The search returns its products.
EngineReturn ==
  /\ epc = "done"
  /\ epc' = "idle" /\ dataset' = <<>> /\ ecall' = NoSearch /\ erows' = <<>>
  /\ results' = <<>>
  /\ UNCHANGED <<restEng>>

NextSearch == EngineCall \/ EngineQuery \/ EngineScan \/ EngineReturn

SpecSearch == InitHealth /\ [][NextSearch]_vars

\* ------------------------------------------------- the simplified projection
\* A float64 is carried in hundredths.
Centi == 100
Num(n) == [kind |-> "num", centi |-> n * Centi]
Text == [kind |-> "text", centi |-> 0]
\* The values a field of a nutrient object takes in the dataset.
FieldVals == {Absent, Text} \cup {Num(n) : n \in KjValues}

\* 4.184, in thousandths.
kjPerKcal == 4184
\* (variant: the value is copied, not divided)
KcalCopied(m) == m
\* val / 4.184, to the resolution of the model.
Kcal(m) == (m * 1000) \div kjPerKcal
\* 'if v, ok := kjData[f].(float64); ok { kcalData[f] = v / 4.184 }'.
Convert(v) == IF v.kind = "num" THEN [v EXCEPT !.centi = Kcal(v.centi)] ELSE v

\* The nutriments parseNutrimentsJSON builds: a map from a nutrient's name
\* to its object.
EnergyEntries ==
  {[present |-> TRUE, f100g |-> a, serving |-> b, value |-> c,
    name |-> "energy", unit |-> u] :
     a \in FieldVals, b \in FieldVals, c \in FieldVals, u \in {"kJ", ""}}
KcalEntry == [present |-> TRUE, f100g |-> Num(539), serving |-> Num(135),
              value |-> Absent, name |-> "energy-kcal", unit |-> "kcal"]
FatEntry == [present |-> TRUE, f100g |-> Num(5), serving |-> Absent,
             value |-> Absent, name |-> "fat", unit |-> "g"]
NutrimentMaps ==
  {NoNutriments}
    \cup {[nil |-> FALSE,
           entries |-> [k \in NutKeys |->
                          IF k = "energy" THEN en
                          ELSE IF k = "energy-kcal" THEN kc ELSE fa]] :
            en \in EnergyEntries \cup {NoEntry}, kc \in {KcalEntry, NoEntry},
            fa \in {FatEntry, NoEntry}}

\* Product.processNutrimentsForSimplified.
processNutrimentsForSimplified(n) ==
  IF n.nil THEN n
  ELSE LET processed0 == n.entries
           hasKcal == processed0["energy-kcal"].present
           energyKj == processed0["energy"]
           hasKj == energyKj.present
       IN IF hasKcal
          THEN [n EXCEPT !.entries["energy"] = NoEntry]
          ELSE IF hasKj
          THEN [n EXCEPT !.entries["energy-kcal"] =
                           [energyKj EXCEPT !.f100g = Convert(energyKj.f100g),
                                            !.serving = Convert(energyKj.serving),
                                            !.value = Convert(energyKj.value),
                                            !.name = "energy-kcal",
                                            !.unit = "kcal"],
                         !.entries["energy"] = NoEntry]
          ELSE n

\* ToSimplified is called on a product the search returned.
NutStart ==
  /\ npc = "idle"
  /\ nutriments' \in NutrimentMaps
  /\ npc' = "process" /\ processed' = NoNutriments
  /\ UNCHANGED <<restNut>>

\* The projection's nutriments are computed.
NutProcess ==
  /\ npc = "process"
  /\ processed' = processNutrimentsForSimplified(nutriments)
  /\ npc' = "done"
  /\ UNCHANGED <<restNut, nutriments>>

\* The simplified product is returned.
NutReturn ==
  /\ npc = "done"
  /\ npc' = "idle" /\ nutriments' = NoNutriments /\ processed' = NoNutriments
  /\ UNCHANGED <<restNut>>

NextNut == NutStart \/ NutProcess \/ NutReturn

SpecNut == InitHealth /\ [][NextNut]_vars

\* ------------------------------------------------------------ the .env file
\* A string is a sequence of symbols: a space, '#', '=', a variable's name,
\* or a piece of a value.
Space == "sp"
ValueSyms == {"v", "w"}

RECURSIVE TrimLeft(_)
TrimLeft(s) == IF s # <<>> /\ Head(s) = Space THEN TrimLeft(Tail(s)) ELSE s
RECURSIVE TrimRight(_)
TrimRight(s) ==
  IF s # <<>> /\ s[Len(s)] = Space THEN TrimRight(SubSeq(s, 1, Len(s) - 1)) ELSE s
\* strings.TrimSpace.
TrimSpace(s) == TrimRight(TrimLeft(s))
\* strings.HasPrefix(line, "#").
IsComment(s) == s # <<>> /\ Head(s) = "#"
\* strings.SplitN(line, "=", 2): the parts before and after the first '='.
SplitN(s) ==
  IF \E i \in DOMAIN s : s[i] = "="
  THEN LET i == CHOOSE i \in DOMAIN s : s[i] = "=" /\ \A j \in 1..(i - 1) : s[j] # "="
       IN <<SubSeq(s, 1, i - 1), SubSeq(s, i + 1, Len(s))>>
  ELSE <<s>>

\* The lines a .env file is made of.
EnvLines ==
  {<<>>, <<Space>>, <<"#", "ENV", "=", "v">>}
    \cup {<<k>> : k \in EnvKeys}
    \cup {<<k, "=">> : k \in EnvKeys}
    \cup {<<k, "=", v>> : k \in EnvKeys, v \in ValueSyms}
    \cup {<<Space, k, Space, "=", Space, v, Space>> : k \in EnvKeys, v \in ValueSyms}
    \cup {<<"ENV", "=", "v", "=", "w">>, <<"=", "v">>}
EnvFiles == UNION {[1..n -> EnvLines] : n \in 0..MaxEnvLines}
\* The environment the process is started with: a variable is unset, set
\* to the empty string, or set to a value.
Environs ==
  [EnvKeys -> {[set |-> FALSE, value |-> <<>>]}
                \cup {[set |-> TRUE, value |-> v] : v \in {<<>>, <<"v">>, <<"w">>}}]

\* os.Getenv: the value, or "" when the variable is not set.
Getenv(env, k) == IF env[k].set THEN env[k].value ELSE <<>>
\* 'if os.Getenv(key) == ""'.
NotAlreadySet(env, k) == Getenv(env, k) = <<>>

\* One turn of the scanner loop on a line of .env.
LoadLine(env, raw) ==
  LET line == TrimSpace(raw)
      parts == SplitN(line)
  IN IF line = <<>> \/ IsComment(line) THEN env
     ELSE IF Len(parts) # 2 THEN env
     ELSE LET key == TrimSpace(parts[1])
              value == TrimSpace(parts[2])
          IN IF Len(key) = 1 /\ key[1] \in EnvKeys /\ NotAlreadySet(env, key[1])
             THEN [env EXCEPT ![key[1]] = [set |-> TRUE, value |-> value]]
             ELSE env

\* config.Load starts in some environment; .env is there or not.
EnvStart ==
  /\ envpc = "idle"
  /\ environ' \in Environs
  /\ \/ envFile' \in EnvFiles /\ envpc' = "scan"
     \/ envFile' = <<>> /\ envpc' = "done"
  /\ scanned' = 0
  /\ UNCHANGED <<restEnv>>

\* The scanner reads the next line.
EnvScan ==
  /\ envpc = "scan" /\ scanned < Len(envFile)
  /\ environ' = LoadLine(environ, envFile[scanned + 1])
  /\ scanned' = scanned + 1
  /\ UNCHANGED <<restEnv, envpc, envFile>>

\* The file is at its end.
EnvEnd ==
  /\ envpc = "scan" /\ scanned = Len(envFile)
  /\ envpc' = "done"
  /\ UNCHANGED <<restEnv, environ, envFile, scanned>>

\* loadEnvFileWithReader returns.
EnvReturn ==
  /\ envpc = "done"
  /\ envpc' = "idle" /\ environ' = NoEnviron /\ envFile' = <<>> /\ scanned' = 0
  /\ UNCHANGED <<restEnv>>

NextEnv == EnvStart \/ EnvScan \/ EnvEnd \/ EnvReturn

SpecEnv == InitHealth /\ [][NextEnv]_vars

\* =================================================================
\* Properties of the dataset manager
\* =================================================================
\* Positions inside downloadWithLock's download-and-promote section.
SectionPcs ==
  {"downloadFile", "copyBody", "saveMetadata", "removeSnapshot", "copyFile",
   "copyData", "returnOk", "returnErr", "returnErrNoTmp"}
InSection(p) == pc[p] \in SectionPcs
\* Positions whose next step writes the metadata file or the snapshot path.
WritePcs == {"saveMetadata", "removeSnapshot", "copyFile", "copyData"}
Holders == {p \in Procs : lockFile[p]}

\* C1 as stated: whatever the configuration, at most one invocation is in
\* the download-and-promote section at any time.
C1_AtMostOneDownloader == Cardinality({p \in Procs : InSection(p)}) <= 1

\* C1 as amended: with IgnoreLock off, at most one invocation is in the
\* download-and-promote section at any time, and every other invocation is
\* checking freshness, about to try the lock, waiting, or has returned.
C1_MutualExclusionWithoutIgnoreLock ==
  ~ignoreLock =>
    /\ Cardinality({p \in Procs : InSection(p)}) <= 1
    /\ \A p \in Procs :
         ~InSection(p) => pc[p] \in {"idle", "isUpToDate", "upToDate", "acquireLock", "wait", "done"}

\* C1 witness: one invocation copies into the snapshot path while another waits.
C1_Witness ==
  /\ ~ignoreLock
  /\ \E p, q \in Procs : p # q /\ pc[p] = "copyData" /\ pc[q] = "wait"

\* C2 as stated: at every moment at most one writer holds a lock handle it
\* got from acquireLock and has not released.
C2_AtMostOneHolder == Cardinality(Holders) <= 1

\* A step in which invocation p gets a lock handle starts with no file at
\* the lock path and ends with p's file there.
AcquireOnlyWhenFree ==
  \A p \in Procs :
    (lockFile'[p] /\ ~lockFile[p]) => (lockOwner = NoLock /\ lockOwner' = p)

\* C2 as amended: in every configuration acquireLock succeeds only if no
\* lock file exists at the lock path; with IgnoreLock off, a writer holds a
\* lock handle exactly while the lock file at the lock path is the one it
\* created (acquireLock fails for everyone else meanwhile, and the path is
\* free again once the holder has released), hence at most one holder.
C2_LockExclusiveWithoutIgnoreLock ==
  /\ [][AcquireOnlyWhenFree]_vars
  /\ [](~ignoreLock =>
         /\ \A p \in Procs : lockFile[p] <=> lockOwner = p
         /\ Cardinality(Holders) <= 1)

\* C2 witness: a writer holds the lock after an earlier holder has released it
\* and returned.
C2_Witness ==
  /\ ~ignoreLock
  /\ \E p, q \in Procs : p # q /\ ret[p].held /\ lockFile[q] /\ lockOwner = q

C4_ReaderSeesWholeSnapshot ==
  (qInWindow /\ rdSeen # "none") => rdSeen = "complete"

\* C5 as stated: a query issued while a complete snapshot is being replaced,
\* which is not cancelled and meets no error other than file-unavailable
\* errors, all of them during the replacement, completes successfully.
C5_QuerySurvivesReplacement ==
  (qpc = "done" /\ qInWindow /\ qret \notin {"cancelled", "invalid"}) => qret = "ok"

\* C6 as stated: whenever EnsureDataset returns success, the snapshot file
\* exists and its SHA-256 equals the sha256 recorded in the metadata file.
C6_SuccessMeansShaMatches ==
  \A p \in Procs : ret[p].status = "ok" => ret[p].exists /\ ret[p].shaOk

\* C7 as stated: at every moment the metadata file describes a snapshot that
\* is, or earlier was, complete at the snapshot path.
C7_MetadataNeverAhead ==
  metadata.present =>
    \E v \in promoted : metadata.sha = computeSHA256(Body(v))

\* C8 as stated: EnsureDataset returns success (on the wait path too) only
\* when a complete snapshot is at the snapshot path.
C8_SuccessMeansUsable ==
  \A p \in Procs : ret[p].status = "ok" => ret[p].complete

\* C9 as stated: when a refresh fails after its temp download has started,
\* the temp file is gone and the snapshot that was there when the download
\* started is still at the snapshot path, unchanged.
C9_FailedRefreshKeepsSnapshot ==
  \A p \in Procs :
    (ret[p].status = "err" /\ ret[p].via = "download") =>
      ret[p].tmpGone /\ ret[p].keptOld

\* C10 as stated: once a snapshot has been created, a snapshot file is at the
\* snapshot path whenever an EnsureDataset invocation returns, with success
\* or with an error.
C10_SnapshotNeverLeftDeleted ==
  \A p \in Procs :
    (ret[p].status # "none" /\ ret[p].created) => ret[p].exists

\* =================================================================
\* Waiting, locks and freshness
\* =================================================================
\* Invocations with IGNORE_LOCK off, the configuration in which a busy lock
\* makes an invocation wait.
InitWait == Init /\ ~ignoreLock
Locking(p) ==
  \/ EnsureDataset(p) \/ IsUpToDate(p) \/ UpToDate(p) \/ AcquireLock(p)
  \/ DownloadFile(p) \/ DownloadChunk(p) \/ SaveMetadata(p)
  \/ RemoveSnapshot(p) \/ CopyOpen(p) \/ CopyChunk(p)
  \/ Finish(p) \/ WaitTimers(p) \/ WaitCtxDone(p)
NextWait == RemotePublish \/ \E p \in Procs : Locking(p)
\* The Go runtime delivers timer and ticker events and schedules the waiting
\* goroutine: a round of waitForDownload's select that a timer can serve is
\* served.  Nothing is assumed about the context or about the lock holder.
SpecWait == InitWait /\ [][NextWait]_vars /\ \A p \in Procs : WF_vars(WaitTimers(p))

\* A return of invocation p from waitForDownload.
WaitReturns(p) == pc[p] = "wait" /\ pc'[p] = "done"

\* C11: an invocation in waitForDownload returns nil only when the snapshot
\* path exists, the timeout error only when the 10 minutes have passed, or
\* the context's error; and every invocation that enters waitForDownload
\* leaves it (it never blocks for ever).
C11_WaitAlwaysTerminates ==
  /\ [][\A p \in Procs :
          WaitReturns(p) =>
            \/ ret'[p].status = "ok" /\ ret'[p].err = "nil" /\ Exists("snapshot")
            \/ ret'[p].status = "err" /\ ret'[p].err = "timeout" /\ waited[p] = WaitTicks
            \/ ret'[p].status = "err" /\ ret'[p].err = "canceled"]_vars
  /\ \A p \in Procs : (pc[p] = "wait") ~> (pc[p] = "done")

\* C11 witness: an invocation that found the lock busy has polled until the
\* timeout and returned the timeout error.
C11_Witness ==
  \E p \in Procs : ret[p].via = "wait" /\ ret[p].err = "timeout"

\* Invocation p returns from EnsureDataset in this step.
Returns(p) == pc[p] # "done" /\ pc'[p] = "done"

\* C12: whatever the configuration, a step in which a lock holder returns
\* (with nil or with an error) leaves no file at the lock path and no lock
\* handle with the invocation, and the lock file of an invocation that has
\* returned is never at the lock path.
C12_HolderRemovesLockOnReturn ==
  /\ [][\A p \in Procs :
          (Returns(p) /\ lockFile[p]) => (lockOwner' = NoLock /\ ~lockFile'[p])]_vars
  /\ [](\A p \in Procs : pc[p] = "done" => (lockOwner # p /\ ~lockFile[p]))

\* C12 witness: a lock holder has returned an error from the download and no
\* file is at the lock path.
C12_Witness ==
  \E p \in Procs :
    /\ ret[p].held /\ ret[p].status = "err" /\ ret[p].via = "download"
    /\ lockOwner = NoLock

C14_WaitOnlyWhenLockExists ==
  [][\A p \in Procs :
       (pc[p] = "acquireLock" /\ pc'[p] = "wait") => lockOwner # NoLock]_vars

\* C15: a step of EnsureDataset that starts with the snapshot path present
\* and remote checks disabled returns nil at once, before isUpToDate or
\* downloadWithLock is called (no request has been sent, no response is
\* held), with no lock handle, and leaves the lock path, the snapshot path,
\* the files' contents and the metadata file as they were.
C15_LocalOnlyWhenChecksDisabled ==
  [][\A p \in Procs :
       (pc[p] = "idle" /\ pc'[p] # "idle" /\ Exists("snapshot") /\ disableRemoteCheck) =>
         /\ pc'[p] = "done"
         /\ ret'[p].status = "ok" /\ ret'[p].via = "local"
         /\ loc'[p] = NoLoc /\ fd'[p] = NoFds
         /\ ~lockFile'[p] /\ lockOwner' = lockOwner
         /\ path' = path /\ ino' = ino /\ metadata' = metadata]_vars

\* C15 witness: with remote checks disabled an invocation has returned nil on
\* the local snapshot although the remote has published a newer version.
C15_Witness ==
  /\ disableRemoteCheck
  /\ \E p \in Procs :
       /\ ret[p].status = "ok" /\ ret[p].via = "local" /\ ret[p].complete
       /\ remote > 1 /\ metadata = MetaOf(1)

\* C16: when EnsureDataset acts on a freshness check whose probe succeeded,
\* it returns nil without starting a download if the local and remote ETags
\* are both non-empty and equal, or if one of them is empty and the local
\* and remote sizes are equal; in every other case it goes on to
\* downloadWithLock.
C16_FreshByEtagElseSize ==
  [][\A p \in Procs :
       (pc[p] = "upToDate" /\ pc'[p] # "upToDate" /\ loc[p].remoteMeta.state = "ok") =>
         LET l == loc[p].localMeta
             r == loc[p].remoteMeta
             bothTags == l.etag # 0 /\ r.etag # 0
             fresh == \/ bothTags /\ l.etag = r.etag
                      \/ ~bothTags /\ l.size = r.size
         IN IF fresh
              THEN pc'[p] = "done" /\ ret'[p].status = "ok" /\ ~lockFile'[p]
              ELSE pc'[p] \in {"forceUnlock", "acquireLock"}]_vars

\* C16 witness: an invocation has returned nil on a freshness check in which
\* both ETags were non-empty and equal although the sizes differed.
C16_Witness ==
  \E p \in Procs :
    /\ ret[p].via = "fresh"
    /\ loc[p].remoteMeta.state = "ok"
    /\ loc[p].remoteMeta.etag # 0
    /\ loc[p].remoteMeta.etag = loc[p].localMeta.etag
    /\ loc[p].remoteMeta.size # loc[p].localMeta.size

\* C17 as stated: when EnsureDataset acts on a freshness check whose probe
\* failed while the snapshot path is present, it returns nil and starts no
\* download.
C17_ProbeFailureUsesLocal ==
  [][\A p \in Procs :
       (/\ pc[p] = "upToDate" /\ pc'[p] # "upToDate"
        /\ loc[p].remoteMeta.state = "failed" /\ Exists("snapshot")) =>
         pc'[p] = "done" /\ ret'[p].status = "ok"]_vars

\* =================================================================
\* The serving process and its refresh loop
\* =================================================================
\* C18 as stated, its second half: the refresh loop invokes no refresh once
\* its context has been cancelled.
C18_NoRefreshAfterCancel == ~late

\* C19 as stated: while the HTTP server is serving with a positive refresh
\* interval (and its context is not cancelled), the refresh goroutine is
\* active: waiting for a tick or running a refresh.
C19_RefreshTaskWhileServing ==
  (srv = "serving" /\ interval > 0 /\ ~ctxDone) => loop \in {"select", "refresh"}

\* =================================================================
\* The query retry wrapper
\* =================================================================
\* C20 as stated: a file-access error is surfaced to the caller only after
\* three retries (three waits between executions).
C20_ThreeRetries ==
  (qpc = "done" /\ IsFileAccessError(qret)) => Len(qwaits) = 3

\* C20 as amended: a query is executed at most three times, that is retried
\* at most twice, after waits of 100 ms and then 200 ms; a file-access error
\* is surfaced to the caller only by the third execution, after both waits.
C20_ThreeExecutionsTwoWaits ==
  /\ attempt <= 2
  /\ Len(qwaits) = attempt
  /\ \A i \in 1..Len(qwaits) : qwaits[i] = IF i = 1 THEN 100 ELSE 200
  /\ (qpc = "done" /\ IsFileAccessError(qret)) => (attempt = 2 /\ qwaits = <<100, 200>>)

\* C20 witness: a query has surfaced the file-access error after its third
\* execution.
C20_Witness ==
  qpc = "done" /\ qret = "No such file" /\ attempt = 2 /\ qwaits = <<100, 200>>

\* An engine error that is neither success, nor the context's error, nor a
\* temporary file access error.
NonTransient(err) == err \notin {"nil", "cancelled"} /\ ~IsFileAccessError(err)

\* C21: an execution of the query that fails with an error that is not a
\* file-not-found / cannot-open error ends queryWithRetry in that very step:
\* the error is what the caller gets, no retry is scheduled and no delay is
\* waited; when it is the first execution, it is the only one.
C21_NonTransientSurfacesAtOnce ==
  /\ [][(qpc = "exec" /\ qpc' # "exec" /\ NonTransient(Execute))
        => /\ qpc' = "done" /\ qret' = Execute
           /\ attempt' = attempt /\ qwaits' = qwaits
           /\ qexecs' = qexecs + 1]_vars
  /\ []((qpc = "done" /\ qkind = "query" /\ NonTransient(qret) /\ attempt = 0)
        => (qexecs = 1 /\ qwaits = <<>>))

\* C21 witness: the first execution met a snapshot that is not a whole
\* parquet file and the caller has that error after one execution, no wait.
C21_Witness ==
  qpc = "done" /\ qkind = "query" /\ qret = "invalid" /\ qexecs = 1 /\ qwaits = <<>>

\* C22 as stated: a call whose context was cancelled while the wrapper was
\* waiting between attempts returns the cancellation error.
C22_CancelledWaitReturnsCancellation ==
  (qpc = "done" /\ qctx = "backoff") => qret = "cancelled"

\* =================================================================
\* The health cache
\* =================================================================
\* C23: a health check that arrives less than 10 seconds after a completed
\* engine probe returns that probe's result and runs no probe.
C23_WarmCacheAnswers ==
  \A c \in Callers :
    (hpc[c] = "done" /\ hcall[c].fresh /\ hcall[c].cached.probe >= 1)
      => hres[c] = [val |-> hcall[c].cached, probed |-> FALSE]

\* C23 witness: a call that arrived some seconds after a completed probe,
\* inside the 10 seconds, has been answered.
C23_Witness ==
  \E c \in Callers :
    /\ hpc[c] = "done" /\ hcall[c].fresh /\ hcall[c].cached.probe >= 1
    /\ hcall[c].at > lastHealthCheck
    /\ ~hres[c].probed

\* C24: callers that found the cache expired in the same round (between the
\* same two probes) are all answered by one probe, the next one; only one of
\* them has run it.
C24_SingleFlight ==
  \A c, d \in Callers :
    (hpc[c] = "done" /\ hcall[c].expired)
      => /\ hres[c].val.probe = hcall[c].round + 1
         /\ (c # d /\ hpc[d] = "done" /\ hcall[d].expired
               /\ hcall[d].round = hcall[c].round)
              => /\ hres[d].val = hres[c].val
                 /\ ~(hres[c].probed /\ hres[d].probed)

\* C24 witness: two callers found the cache expired in the same round; one
\* has probed, the other has returned the same result without probing.
C24_Witness ==
  \E c, d \in Callers :
    /\ c # d /\ hpc[c] = "done" /\ hpc[d] = "done"
    /\ hcall[c].expired /\ hcall[d].expired /\ hcall[c].round = hcall[d].round
    /\ hres[c].probed /\ ~hres[d].probed /\ hres[d].val = hres[c].val

C26_ExactBearerToken ==
  /\ \A h \in Headers, tok \in Tokens :
       IsAuthorized(h, tok) <=> (tok # <<>> /\ h = bearerPrefix \o tok)
  /\ hreq.auth # "unchecked"
       => ((hreq.auth = "ok") <=>
             (authToken # <<>> /\ hreq.header = bearerPrefix \o authToken))

\* C26 witness: a request carrying "Bearer " and the configured token of
\* full length has been authorized.
C26_Witness ==
  /\ hreq.auth = "ok" /\ Len(authToken) = MaxTokenLen
  /\ hreq.header = bearerPrefix \o authToken

\* C27: a request whose authentication fails is answered 401 with
\* WWW-Authenticate: Bearer, and for no request with a header that is not
\* authorized is the dispatcher, a tool handler or the engine run.
C27_RejectedGets401 ==
  /\ hreq.auth = "rejected"
       => /\ hst = "responded"
          /\ resp.status = 401 /\ resp.wwwAuth = "Bearer"
          /\ invoked = {}
  /\ ~IsAuthorized(hreq.header, authToken) => invoked = {}

\* C27 witness: a request with "Bearer " and an empty token has been
\* answered 401 with the header, nothing having run for it.
C27_Witness ==
  /\ hst = "responded" /\ hreq.auth = "rejected" /\ hreq.header = bearerPrefix
  /\ resp.status = 401 /\ resp.wwwAuth = "Bearer" /\ invoked = {}

\* C28 as stated: in production mode the text a client gets for an engine
\* failure is the generic "internal error".
C28_ProductionHidesEngineText ==
  (hst = "responded" /\ environment = "production"
     /\ hreq.engineErr \notin {"none", "nil"})
    => resp.text = <<"internal error">>

C30_GracefulShutdown ==
  /\ (sig /\ srv = "exited")
       => (engine = "closed" /\ (cut = 0 \/ swait = HTTPShutdownTimeout))
  /\ engine = "closed" => (sig /\ ~listening /\ srv = "exited")

\* =================================================================
\* The search tools
\* =================================================================
\* The requested limit is a whole number (or absent).
WholeLimit == GetFloat(tcall.limit) % Tenths = 0
Requested == Trunc(GetFloat(tcall.limit))

\* C31 as stated, for whole-number requests: the limit passed to the engine
\* is between 1 and 10; a request of 0 or less gives 3, a request above 10
\* gives 10, any other request is passed as it is.
C31_LimitClamped ==
  (tpc = "engine" /\ WholeLimit)
    => /\ tlimit \in 1..maxLimit
       /\ Requested <= 0 => tlimit = defaultLimit
       /\ Requested > maxLimit => tlimit = maxLimit
       /\ Requested \in 1..maxLimit => tlimit = Requested

C32_ReturnedCodeNonEmpty ==
  epc = "done"
    => /\ Len(results) <= ecall.limit
       /\ \A i \in DOMAIN results : results[i].Code # ""

\* =================================================================
\* The simplified projection
\* =================================================================
\* q is m / 4.184 to the last hundredth (m and q in hundredths).
IsKcalOf(q, m) == q * kjPerKcal <= m * 1000 /\ m * 1000 < (q + 1) * kjPerKcal
\* Field f of the derived entry comes from field f of the energy entry.
Derived(out, in) ==
  IF in.kind = "num" THEN out.kind = "num" /\ IsKcalOf(out.centi, in.centi)
  ELSE out = in

C35_SetVariablesKept ==
  [][envpc = "scan" => \A k \in EnvKeys : environ[k].set => environ'[k] = environ[k]]_vars

\* =================================================================
\* Writers under a forced unlock
\* =================================================================
\* C36 as stated: a step in which a writer releases its lock removes a lock
\* file only if that file is the one this writer created.
C36_ReleaseRemovesOwnLockOnly ==
  [][\A p \in Procs :
       (lockFile[p] /\ ~lockFile'[p] /\ lockOwner # NoLock /\ lockOwner' = NoLock)
         => lockOwner = p]_vars

\* C37 as stated: two writers never have the same temp file open for
\* writing, never have the same snapshot file open for writing, and when a
\* writer's copy into the snapshot path has ended without an error the
\* file there is the whole body of one download response.
C37_PromotedIsOneDownload ==
  /\ \A p, q \in Procs :
       (p # q /\ fd[p].tmp # 0) => fd[p].tmp # fd[q].tmp
  /\ \A p, q \in Procs :
       (p # q /\ fd[p].dst # 0) => fd[p].dst # fd[q].dst
  /\ \A p \in Procs : pc[p] = "returnOk" => SnapshotUsable

\* =================================================================
\* Waiting on a stale snapshot
\* =================================================================
\* C38 as stated: an invocation that found its snapshot not up to date and
\* then waited for the lock returns nil only when no lock holder is still at
\* work and the snapshot path holds a complete file other than the one it
\* found not up to date.
C38_WaitReturnsAfterRefresh ==
  [][\A p \in Procs :
       (/\ pc[p] = "wait" /\ pc'[p] = "done" /\ ret'[p].status = "ok"
        /\ loc[p].localMeta.present)
         => /\ \A q \in Procs : ~(lockFile[q] /\ InSection(q))
            /\ lockOwner = NoLock
            /\ SnapshotUsable
            /\ computeSHA256(Content("snapshot")) # loc[p].localMeta.sha]_vars

\* =================================================================
\* The single-row retry wrapper
\* =================================================================
\* C39 as stated: when the context is never cancelled, the row
\* queryRowWithRetry hands back carries a file access error only if all
\* maxRetries attempts have been made, with a wait between them.
C39_RowFileErrorOnlyAfterRetries ==
  (qpc = "done" /\ qkind = "row" /\ qctx = "none" /\ IsFileAccessError(qret))
    => attempt = maxRetries - 1 /\ Len(qwaits) = maxRetries - 1

\* =================================================================
\* Cancelled health probes
\* =================================================================
\* C40 as stated: a health check that is answered from the cache, its own
\* context being live, never receives the cancellation error of the request
\* that ran the probe.
C40_CancellationNotCached ==
  \A c \in Callers :
    (hpc[c] = "done" /\ ~hres[c].probed) => hres[c].val.err # "cancelled"

====
